---------------------------- MODULE Spec2Model ----------------------------
(***************************************************************************)
(* Streaming conversation synchronization of the AI Geotechnical Assistant *)
(* chat front-end.                                                         *)
(*                                                                         *)
(* The state machines of this module:                                      *)
(*   Spec       - the chat session controller (Chat component, JSON reply  *)
(*                variant, src/unnamed/part_011 lines 279-1248);           *)
(*   SeqSpec    - the same controller when each request is settled before  *)
(*                the user acts again;                                     *)
(*   GuardSpec  - the send route's active-run guard                        *)
(*                (src/app/api/assistants/threads/[threadId]/messages/     *)
(*                route.ts lines 146-386);                                 *)
(*   StreamSpec - the streaming variant of the Chat component              *)
(*                (src/unnamed/part_011 lines 1395-2271);                  *)
(*   SseSpec    - handleSSEStream reading one response body, byte by byte  *)
(*                (src/unnamed/part_011 lines 1518-1625);                  *)
(*   ToolSpec   - the handling of requires_action events                   *)
(*                (src/unnamed/part_011 lines 1887-1901, 1693-1732);       *)
(*   CiteSpec   - the rewrite of citation markers                          *)
(*                (src/unnamed/part_011 lines 37-69);                      *)
(*   ResubmitSpec - the controller of Spec with a user who submits a       *)
(*                second message;                                          *)
(*   NewChatSpec - the streaming variant from the welcome screen: the      *)
(*                first message creates the conversation                   *)
(*                (src/unnamed/part_011 lines 1734-1848);                  *)
(*   FrameSpec  - handleSSEStream handling the parsed frames of a response *)
(*                (src/unnamed/part_011 lines 1567-1617);                  *)
(*   StoreSpec  - the thread-history route, POST and DELETE                *)
(*                (src/unnamed/part_007 lines 27-71, 133-168).             *)
(***************************************************************************)
EXTENDS Integers, Sequences, FiniteSets, TLC

(***************************************************************************)
(* Bounds of the model.                                                    *)
(***************************************************************************)
\* user messages submitted in one session
MaxSends == 1
\* user messages submitted in a session in which the user submits again
MaxResends == 2
\* user messages submitted in one session of the streaming variant
MaxTurns == 1
\* text deltas one response stream delivers
MaxDeltas == 2
\* history requests (select loads, polls, SWR revalidations) in flight at once
MaxFetches == 2
\* POST requests to the send route of one thread
MaxPosts == 3

(***************************************************************************)
(* Conversations.  NoThread stands for the falsy threadId ("" or null).    *)
(***************************************************************************)
NoThread == 0
\* conversations already in the metadata store when the component mounts
StoredThreads == {1, 2}
\* the stored conversations flagged isGroup in the thread list
GroupThreads == {2}
\* the ids the backend hands out to conversations created in this session
FreshThreads == {3}
AllThreads == StoredThreads \cup FreshThreads

\* messageData of useSWR before the first response for the current key
NoData == <<"undefined">>

\* a transcript entry {role, text}; th and n identify the turn it belongs to
Msg(t, role, n, text) == [th |-> t, role |-> role, n |-> n, text |-> text]
UserMsg(t, n)  == Msg(t, "user", n, "q")
ReplyMsg(t, n) == Msg(t, "assistant", n, "a")
ErrorMsg(t, n) == Msg(t, "assistant", n, "[Error]")

\* a message as the history endpoint returns it: {role, content}
Stored(t, role, n, content) == [th |-> t, role |-> role, n |-> n, content |-> content]
\* the exchange a stored conversation holds from an earlier session
OldExchange(t) == <<Stored(t, "user", 0, "q"), Stored(t, "assistant", 0, "a")>>

VARIABLES
  \* ---- Chat component state (useState / useRef) ----
  threadId,             \* useState threadId
  messages,             \* useState messages: the transcript
  inputDisabled,        \* useState inputDisabled
  isNewThread,          \* useState isNewThread
  isGroupConversation,  \* useState isGroupConversation
  lastMessageCountRef,  \* useRef: the watermark
  loadingThreadRef,     \* useRef: thread the latest loadThread targeted
  pollingIntervalRef,   \* useRef: thread the 2 s interval polls, or NoThread
  messageData,          \* useSWR data for the current key
  \* ---- asynchronous work in flight ----
  fetches,              \* history requests: loadThread calls and SWR fetches
  sends,                \* sendMessage calls awaiting the reply
  submits,              \* handleSubmit calls in the new-conversation branch
  \* ---- backend ----
  threads,              \* conversations that exist
  history,              \* stored messages of each conversation
  sent,                 \* number of user messages submitted so far
  \* ---- observation ----
  lastNav,              \* the handler that last set threadId
  loadLog,              \* "stale" when the latest completed loadThread logged a discard
  \* ---- send route (route.ts) and the runs of its thread ----
  runs,                 \* the thread's runs, oldest first: [status, cancelRequested]
  threadMessages,       \* number of messages the thread holds
  handlers,             \* the POST handlers: [pc, activeRun, response]
  \* ---- streaming variant of the Chat component ----
  isPythonBackend,      \* isPythonBackend(): BACKEND_TYPE === 'python'
  requests,             \* POSTs awaiting their response: sendMessage, submitActionResult
  streams,              \* response streams whose handlers are registered
  toolCalls,            \* requires_action events awaiting functionCallHandler
  timers,               \* pending setTimeout(..., 100) callbacks of "end" handlers
  turns,                \* number of messages submitted so far
  closedEarly,          \* a stream has ended after deltas and without a terminal event
  \* ---- handleSSEStream reading one response body ----
  body,                 \* the bytes of the response body
  readPos,              \* number of bytes reader.read() has delivered
  buffer,               \* let buffer: the bytes after the last complete frame
  frames,               \* the frames the loop has processed, in order
  renderError,          \* a state updater threw: the component is gone
  sseDone,              \* reader.read() has answered done
  \* ---- handleRequiresAction handling requires_action events ----
  pendingRun,           \* runId of the event being handled, or NoRun
  calls,                \* its tool calls (their ids), in the order of the event
  invoked,              \* functionCallHandler invocations per tool call, this event
  outputs,              \* what functionCallHandler resolved with, per call
  events,               \* the requires_action events received: [runId, calls]
  submissions,          \* the bodies submitActionResult has posted
  forwarded,            \* what the actions route has passed to the backend
  \* ---- AssistantMessage rendering one message ----
  rawText,              \* the text prop
  annotations,          \* the annotations prop
  shown,                \* the text handed to Markdown
  applied,              \* how many times the rewrite has been applied to it
  \* ---- the user ----
  sendLimit,            \* how many messages the user submits in this session
  \* ---- handleSSEStream handling the parsed frames of one response ----
  incoming,             \* the frames of the response not yet handled
  handled,              \* the frames handled, in order
  \* ---- the thread-history route and what it writes ----
  conversations,        \* the records of the conversations collection, in order
  openaiThreads,        \* the threads the OpenAI backend holds
  routeCalls,           \* the requests the route is handling, by arrival
  deletions             \* what openai.beta.threads.del has removed

chatVars == <<threadId, messages, inputDisabled, isNewThread, isGroupConversation,
              lastMessageCountRef, loadingThreadRef, pollingIntervalRef, messageData,
              fetches, sends, submits, threads, history, sent, lastNav, loadLog>>

guardVars == <<runs, threadMessages, handlers>>

streamVars == <<isPythonBackend, requests, streams, toolCalls, timers, turns, closedEarly>>

\* the Chat state no stream handler of the streaming variant writes
chatRest == <<threadId, isGroupConversation, lastMessageCountRef, loadingThreadRef, fetches,
              sends, submits, threads, history, sent, lastNav, loadLog>>

sseVars == <<body, readPos, buffer, frames, renderError, sseDone>>

toolVars == <<pendingRun, calls, invoked, outputs, events, submissions, forwarded>>

citeVars == <<rawText, annotations, shown, applied>>

\* the state of the units that are followed on their own
frameVars == <<incoming, handled>>

\* sendLimit is written by no handler
storeVars == <<conversations, openaiThreads, routeCalls, deletions>>

otherVars == <<sendLimit, frameVars, storeVars>>

unitVars == <<sseVars, toolVars, citeVars, otherVars>>

vars == <<chatVars, guardVars, streamVars, unitVars>>

(***************************************************************************)
(* Helpers of the Chat component.                                          *)
(***************************************************************************)
\* the useSWR key: isGroupConversation && threadId ? url(threadId) : null
SwrKey(tid, grp) == IF grp /\ tid # NoThread THEN tid ELSE NoThread

\* the polling useEffect: an interval runs iff threadId && !isNewThread && inputDisabled
PollEffect(tid, new, disabled) ==
  IF tid # NoThread /\ ~new /\ disabled THEN tid ELSE NoThread

\* loadThread's mapping of the fetched messages to transcript entries
ParseMessages(snap) ==
  [i \in 1..Len(snap) |-> Msg(snap[i].th, snap[i].role, snap[i].n, snap[i].content)]

\* loadThread without the check, as before loadingThreadRef was introduced
IsStaleNoCheck(f) == FALSE

\* loadThread's stale check: loadingThreadRef.current !== targetThreadId && isInitialLoad
IsStale(f) == loadingThreadRef # f.target /\ f.kind = "initial"

\* loadThread's polling branch: newMessages.length > lastMessageCountRef.current
PollHasMore(newMessages) == Len(newMessages) > lastMessageCountRef

\* the effects every render runs after a handler changed the state:
\* the polling useEffect and useSWR's switch to the data of the new key
Effects ==
  /\ pollingIntervalRef' = PollEffect(threadId', isNewThread', inputDisabled')
  /\ \/ /\ SwrKey(threadId', isGroupConversation') # SwrKey(threadId, isGroupConversation)
        /\ messageData' = NoData
     \/ /\ SwrKey(threadId', isGroupConversation') = SwrKey(threadId, isGroupConversation)
        /\ UNCHANGED messageData

\* the Chat component after its first render: the welcome screen
ChatInit ==
  /\ threadId = NoThread
  /\ messages = <<>>
  /\ inputDisabled = FALSE
  /\ isNewThread = FALSE
  /\ isGroupConversation = FALSE
  /\ lastMessageCountRef = 0
  /\ loadingThreadRef = NoThread
  /\ pollingIntervalRef = NoThread
  /\ messageData = NoData
  /\ fetches = {}
  /\ sends = {}
  /\ submits = {}
  /\ threads = StoredThreads
  /\ history = [t \in AllThreads |-> IF t \in StoredThreads THEN OldExchange(t) ELSE <<>>]
  /\ sent = 0
  /\ lastNav = "none"
  /\ loadLog = "none"

(***************************************************************************)
(* Navigation handlers.                                                    *)
(***************************************************************************)
\* loadThread up to its await: the ref, and the request it dispatches
LoadThreadDispatch(t, kind) ==
  /\ Cardinality(fetches) < MaxFetches
  /\ loadingThreadRef' = t
  /\ fetches' = fetches \cup {[target |-> t, kind |-> kind, from |-> Len(history[t])]}

\* handleThreadSelect without its setMessages([]): the transcript of the
\* conversation left stays on screen until the load resolves
HandleThreadSelectKeepsTranscript(t) ==
  /\ t \in threads
  /\ lastMessageCountRef' = 0
  /\ inputDisabled' = FALSE
  /\ isGroupConversation' = (t \in GroupThreads)
  /\ isNewThread' = FALSE
  /\ threadId' = t
  /\ LoadThreadDispatch(t, "initial")
  /\ lastNav' = "select"
  /\ UNCHANGED <<messages, sends, submits, threads, history, sent, loadLog>>
  /\ UNCHANGED <<guardVars, streamVars, unitVars>>
  /\ Effects

\* handleThreadSelect(selectedThreadId, isGroup) with a conversation of the list
HandleThreadSelect(t) ==
  /\ t \in threads
  /\ messages' = <<>>
  /\ lastMessageCountRef' = 0
  /\ inputDisabled' = FALSE
  /\ isGroupConversation' = (t \in GroupThreads)
  /\ isNewThread' = FALSE
  /\ threadId' = t
  /\ LoadThreadDispatch(t, "initial")
  /\ lastNav' = "select"
  /\ UNCHANGED <<sends, submits, threads, history, sent, loadLog>>
  /\ UNCHANGED <<guardVars, streamVars, unitVars>>
  /\ Effects

\* handleThreadSelect(null, _): back to the welcome screen
HandleThreadSelectNull ==
  /\ threadId' = NoThread
  /\ messages' = <<>>
  /\ isGroupConversation' = FALSE
  /\ isNewThread' = FALSE
  /\ lastMessageCountRef' = 0
  /\ lastNav' = "none"
  /\ UNCHANGED <<inputDisabled, loadingThreadRef, fetches, sends, submits, threads,
                 history, sent, loadLog>>
  /\ UNCHANGED <<guardVars, streamVars, unitVars>>
  /\ Effects

\* createNewThread: the New Chat button
CreateNewThread ==
  /\ threadId' = NoThread
  /\ messages' = <<>>
  /\ isGroupConversation' = FALSE
  /\ isNewThread' = TRUE
  /\ lastMessageCountRef' = 0
  /\ lastNav' = "none"
  /\ UNCHANGED <<inputDisabled, loadingThreadRef, fetches, sends, submits, threads,
                 history, sent, loadLog>>
  /\ UNCHANGED <<guardVars, streamVars, unitVars>>
  /\ Effects

(***************************************************************************)
(* Sending: handleSubmit, sendMessage and the backend's answer.            *)
(***************************************************************************)
\* appendMessage(role, text): push, and move the watermark to the new length
AppendMessage(m) ==
  /\ messages' = Append(messages, m)
  /\ lastMessageCountRef' = Len(messages) + 1

\* sendMessage's isFirstMessage, read from the render that handled the submit
IsFirstMessage == isNewThread /\ Len(messages) = 0

\* a sendMessage call awaiting its reply; appended is the place the user's
\* message had in the transcript when the request went out (0: not yet there)
Send(t, n, isFirst, viaSubmit, appended) ==
  [thread |-> t, n |-> n, isFirst |-> isFirst, stage |-> "sent", viaSubmit |-> viaSubmit,
   appended |-> appended]

\* handleSubmit in the order of the streaming variant: sendMessage(userInput)
\* first, the append of the user's message after it
HandleSubmitExistingSendFirst ==
  /\ threadId # NoThread
  /\ ~inputDisabled
  /\ sent < sendLimit
  /\ sent' = sent + 1
  /\ sends' = sends \cup {Send(threadId, sent + 1, IsFirstMessage, FALSE, 0)}
  /\ AppendMessage(UserMsg(threadId, sent + 1))
  /\ inputDisabled' = TRUE
  /\ UNCHANGED <<threadId, isNewThread, isGroupConversation, loadingThreadRef, fetches,
                 submits, threads, history, lastNav, loadLog>>
  /\ UNCHANGED <<guardVars, streamVars, unitVars>>
  /\ Effects

\* handleSubmit with a conversation selected: optimistic append, then sendMessage
HandleSubmitExisting ==
  /\ threadId # NoThread
  /\ ~inputDisabled
  /\ sent < sendLimit
  /\ sent' = sent + 1
  /\ AppendMessage(UserMsg(threadId, sent + 1))
  /\ inputDisabled' = TRUE
  /\ sends' = sends \cup {Send(threadId, sent + 1, IsFirstMessage, FALSE, Len(messages'))}
  /\ UNCHANGED <<threadId, isNewThread, isGroupConversation, loadingThreadRef, fetches,
                 submits, threads, history, lastNav, loadLog>>
  /\ UNCHANGED <<guardVars, streamVars, unitVars>>
  /\ Effects

\* handleSubmit on the welcome screen, up to its first await (create conversation)
HandleSubmitNew ==
  /\ threadId = NoThread
  /\ ~inputDisabled
  /\ sent < sendLimit
  /\ Cardinality(threads) + Cardinality({p \in submits : p.stage = "create"})
       < Cardinality(AllThreads)
  /\ sent' = sent + 1
  /\ submits' = submits \cup {[stage |-> "create", id |-> NoThread, n |-> sent + 1,
                               isFirst |-> IsFirstMessage]}
  /\ UNCHANGED <<threadId, messages, inputDisabled, isNewThread, isGroupConversation,
                 lastMessageCountRef, loadingThreadRef, pollingIntervalRef, messageData,
                 fetches, sends, threads, history, lastNav, loadLog>>
  /\ UNCHANGED <<guardVars, streamVars, unitVars>>

\* the create request resolves: setThreadId(newThreadId), setIsNewThread(true),
\* then the await of the metadata save and list refresh
CreateResolved(p) ==
  /\ p \in submits /\ p.stage = "create"
  /\ LET new == CHOOSE t \in AllThreads \ threads : \A u \in AllThreads \ threads : t <= u
     IN /\ threads' = threads \cup {new}
        /\ threadId' = new
        /\ submits' = (submits \ {p}) \cup {[p EXCEPT !.stage = "save", !.id = new]}
  /\ isNewThread' = TRUE
  /\ lastNav' = "create"
  /\ UNCHANGED <<messages, inputDisabled, isGroupConversation, lastMessageCountRef,
                 loadingThreadRef, fetches, sends, history, sent, loadLog>>
  /\ UNCHANGED <<guardVars, streamVars, unitVars>>
  /\ Effects

\* the create request, or the metadata save after it, rejects:
\* catch { console.error('Failed to create thread:', error); return; }
SubmitFailed(p) ==
  /\ p \in submits /\ p.stage \in {"create", "save"}
  /\ submits' = submits \ {p}
  /\ UNCHANGED <<threadId, messages, inputDisabled, isNewThread, isGroupConversation,
                 lastMessageCountRef, loadingThreadRef, pollingIntervalRef, messageData,
                 fetches, sends, threads, history, sent, lastNav, loadLog>>
  /\ UNCHANGED <<guardVars, streamVars, unitVars>>

\* metadata saved and list refreshed: optimistic append, then await sendMessage
SaveResolved(p) ==
  /\ p \in submits /\ p.stage = "save"
  /\ AppendMessage(UserMsg(p.id, p.n))
  /\ inputDisabled' = TRUE
  /\ sends' = sends \cup {Send(p.id, p.n, p.isFirst, TRUE, Len(messages'))}
  /\ submits' = (submits \ {p}) \cup {[p EXCEPT !.stage = "send"]}
  /\ UNCHANGED <<threadId, isNewThread, isGroupConversation, loadingThreadRef, fetches,
                 threads, history, sent, lastNav, loadLog>>
  /\ UNCHANGED <<guardVars, streamVars, unitVars>>
  /\ Effects

\* the backend answers a send: it stores the user message and the reply
BackendAnswer(s) ==
  /\ s \in sends /\ s.stage = "sent"
  /\ history' = [history EXCEPT ![s.thread] =
                   @ \o <<Stored(s.thread, "user", s.n, "q"),
                          Stored(s.thread, "assistant", s.n, "a")>>]
  /\ sends' = (sends \ {s}) \cup {[s EXCEPT !.stage = "ok"]}
  /\ UNCHANGED <<threadId, messages, inputDisabled, isNewThread, isGroupConversation,
                 lastMessageCountRef, loadingThreadRef, pollingIntervalRef, messageData,
                 fetches, submits, threads, sent, lastNav, loadLog>>
  /\ UNCHANGED <<guardVars, streamVars, unitVars>>

\* handleSubmit resumes after "await sendMessage(...)": title generation is next
AfterSend(s) ==
  IF s.viaSubmit
  THEN {IF p.stage = "send" /\ p.id = s.thread THEN [p EXCEPT !.stage = "title"] ELSE p :
          p \in submits}
  ELSE submits

\* sendMessage after its await, the reply received: appendMessage("assistant", ...)
SendResolved(s) ==
  /\ s \in sends /\ s.stage = "ok"
  /\ sends' = sends \ {s}
  /\ submits' = AfterSend(s)
  /\ AppendMessage(ReplyMsg(s.thread, s.n))
  /\ isNewThread' = IF s.isFirst THEN FALSE ELSE isNewThread
  /\ inputDisabled' = FALSE
  /\ UNCHANGED <<threadId, isGroupConversation, loadingThreadRef, fetches, threads,
                 history, sent, lastNav, loadLog>>
  /\ UNCHANGED <<guardVars, streamVars, unitVars>>
  /\ Effects

\* sendMessage after its await, the request failed (a non-OK status, or fetch or
\* response.json() rejected): appendMessage("assistant", "[Error: ...]")
SendFailed(s) ==
  /\ s \in sends /\ s.stage = "sent"
  /\ sends' = sends \ {s}
  /\ submits' = AfterSend(s)
  /\ AppendMessage(ErrorMsg(s.thread, s.n))
  /\ inputDisabled' = FALSE
  /\ UNCHANGED <<threadId, isNewThread, isGroupConversation, loadingThreadRef, fetches,
                 threads, history, sent, lastNav, loadLog>>
  /\ UNCHANGED <<guardVars, streamVars, unitVars>>
  /\ Effects

\* handleSubmit's tail: the title request settles (its failure is only logged),
\* then setIsNewThread(false)
TitleSettled(p) ==
  /\ p \in submits /\ p.stage = "title"
  /\ submits' = submits \ {p}
  /\ isNewThread' = FALSE
  /\ UNCHANGED <<threadId, messages, inputDisabled, isGroupConversation,
                 lastMessageCountRef, loadingThreadRef, fetches, sends, threads, history,
                 sent, lastNav, loadLog>>
  /\ UNCHANGED <<guardVars, streamVars, unitVars>>
  /\ Effects

(***************************************************************************)
(* History requests: loadThread (select and poll) and the useSWR fetch.    *)
(***************************************************************************)
\* the 2 s interval fires: pollForNewMessages(threadId) -> loadThread(threadId, false)
PollTick ==
  /\ pollingIntervalRef # NoThread
  /\ LoadThreadDispatch(pollingIntervalRef, "poll")
  /\ UNCHANGED <<threadId, messages, inputDisabled, isNewThread, isGroupConversation,
                 lastMessageCountRef, pollingIntervalRef, messageData, sends, submits,
                 threads, history, sent, lastNav, loadLog>>
  /\ UNCHANGED <<guardVars, streamVars, unitVars>>

\* useSWR revalidates the messages-history key of a group conversation (every 3 s)
SwrTick ==
  /\ SwrKey(threadId, isGroupConversation) # NoThread
  /\ Cardinality(fetches) < MaxFetches
  /\ fetches' = fetches \cup {[target |-> SwrKey(threadId, isGroupConversation),
                               kind |-> "swr",
                               from |-> Len(history[SwrKey(threadId, isGroupConversation)])]}
  /\ UNCHANGED <<threadId, messages, inputDisabled, isNewThread, isGroupConversation,
                 lastMessageCountRef, loadingThreadRef, pollingIntervalRef, messageData,
                 sends, submits, threads, history, sent, lastNav, loadLog>>
  /\ UNCHANGED <<guardVars, streamVars, unitVars>>

\* What the backend may have answered to request f by the time the client handles
\* the response: the messages stored at some moment since the request was sent
\* (the backend stores a turn as a user message and its reply), a non-OK status
\* (404 when the backend does not know the conversation, or any other), or
\* nothing (the fetch rejects).
Responses(f) ==
  {[status |-> "ok", snap |-> SubSeq(history[f.target], 1, k)] :
     k \in {j \in f.from..Len(history[f.target]) : (j - f.from) % 2 = 0}}
  \cup {[status |-> "notok", snap |-> <<>>], [status |-> "neterr", snap |-> <<>>]}

\* setMessages(newMessages); lastMessageCountRef.current = newMessages.length;
\* setIsNewThread(newMessages.length === 0)
UseBackendState(newMessages) ==
  /\ messages' = newMessages
  /\ lastMessageCountRef' = Len(newMessages)
  /\ isNewThread' = (Len(newMessages) = 0)
  /\ loadLog' = "none"

\* nothing of the fetched response is used
Discard(log) ==
  /\ loadLog' = log
  /\ UNCHANGED <<messages, lastMessageCountRef, isNewThread>>

\* loadThread after its awaits, for a response with an OK status
LoadThreadOk(f, snap) ==
  IF IsStale(f)
  THEN Discard("stale")
  ELSE IF f.kind = "initial"
       THEN UseBackendState(ParseMessages(snap))
       ELSE IF PollHasMore(ParseMessages(snap))
            THEN UseBackendState(ParseMessages(snap))
            ELSE Discard("none")

\* loadThread after its await, for a response with a non-OK status
LoadThreadNotOk(f) ==
  IF IsStale(f)
  THEN Discard("stale")
  ELSE /\ messages' = <<>>
       /\ isNewThread' = TRUE
       /\ loadLog' = "none"
       /\ UNCHANGED lastMessageCountRef

\* loadThread's catch block: the fetch or response.json() rejected
LoadThreadCatch(f) ==
  IF f.kind = "initial"
  THEN /\ messages' = <<>>
       /\ isNewThread' = TRUE
       /\ lastMessageCountRef' = 0
       /\ loadLog' = "none"
  ELSE Discard("none")

\* a loadThread call resumes with response r of its request
LoadThreadResolved(f, r) ==
  /\ f \in fetches /\ f.kind \in {"initial", "poll"}
  /\ r \in Responses(f)
  /\ fetches' = fetches \ {f}
  /\ CASE r.status = "ok"     -> LoadThreadOk(f, r.snap)
       [] r.status = "notok"  -> LoadThreadNotOk(f)
       [] r.status = "neterr" -> LoadThreadCatch(f)
  /\ UNCHANGED <<threadId, inputDisabled, isGroupConversation, loadingThreadRef, sends,
                 submits, threads, history, sent, lastNav>>
  /\ UNCHANGED <<guardVars, streamVars, unitVars>>
  /\ Effects

\* useSWR receives response r; new data for the current key re-runs the effect
\* "if (messageData?.messages && isGroupConversation && threadId) setMessages(...)"
SwrResolved(f, r) ==
  /\ f \in fetches /\ f.kind = "swr"
  /\ r \in Responses(f)
  /\ fetches' = fetches \ {f}
  /\ IF /\ r.status = "ok"
        /\ f.target = SwrKey(threadId, isGroupConversation)
        /\ ParseMessages(r.snap) # messageData
     THEN /\ messageData' = ParseMessages(r.snap)
          /\ messages' = ParseMessages(r.snap)
     ELSE UNCHANGED <<messageData, messages>>
  /\ UNCHANGED <<threadId, inputDisabled, isNewThread, isGroupConversation,
                 lastMessageCountRef, loadingThreadRef, pollingIntervalRef, sends, submits,
                 threads, history, sent, lastNav, loadLog>>
  /\ UNCHANGED <<guardVars, streamVars, unitVars>>

\* every response any request in flight may receive
AllResponses == UNION {Responses(f) : f \in fetches}

Next ==
  \/ \E t \in AllThreads : HandleThreadSelect(t)
  \/ HandleThreadSelectNull
  \/ CreateNewThread
  \/ HandleSubmitExisting
  \/ HandleSubmitNew
  \/ \E p \in submits : CreateResolved(p)
  \/ \E p \in submits : SubmitFailed(p)
  \/ \E p \in submits : SaveResolved(p)
  \/ \E s \in sends : BackendAnswer(s)
  \/ \E s \in sends : SendFailed(s)
  \/ \E s \in sends : SendResolved(s)
  \/ \E p \in submits : TitleSettled(p)
  \/ PollTick
  \/ SwrTick
  \/ \E f \in fetches, r \in AllResponses : LoadThreadResolved(f, r)
  \/ \E f \in fetches, r \in AllResponses : SwrResolved(f, r)

\* no request of the session is in flight
Quiescent == fetches = {} /\ sends = {} /\ submits = {}

\* sequential use: the user selects, starts a new chat or submits only when
\* every request of the earlier operations has settled; the component's own
\* work (polls, revalidations, responses) runs as in Next
SeqNext ==
  \/ Quiescent /\ \E t \in AllThreads : HandleThreadSelect(t)
  \/ Quiescent /\ HandleThreadSelectNull
  \/ Quiescent /\ CreateNewThread
  \/ Quiescent /\ HandleSubmitExisting
  \/ Quiescent /\ HandleSubmitNew
  \/ \E p \in submits : CreateResolved(p)
  \/ \E p \in submits : SubmitFailed(p)
  \/ \E p \in submits : SaveResolved(p)
  \/ \E s \in sends : BackendAnswer(s)
  \/ \E s \in sends : SendFailed(s)
  \/ \E s \in sends : SendResolved(s)
  \/ \E p \in submits : TitleSettled(p)
  \/ PollTick
  \/ SwrTick
  \/ \E f \in fetches, r \in AllResponses : LoadThreadResolved(f, r)
  \/ \E f \in fetches, r \in AllResponses : SwrResolved(f, r)

\* the user selects conversations and submits, again and again, while the
\* requests of the earlier submits are in flight; no poll or revalidation
\* timer fires in the meantime
ResubmitNext ==
  \/ \E t \in AllThreads : HandleThreadSelect(t)
  \/ HandleSubmitExisting
  \/ HandleSubmitNew
  \/ \E p \in submits : CreateResolved(p)
  \/ \E p \in submits : SubmitFailed(p)
  \/ \E p \in submits : SaveResolved(p)
  \/ \E s \in sends : BackendAnswer(s)
  \/ \E s \in sends : SendFailed(s)
  \/ \E s \in sends : SendResolved(s)
  \/ \E p \in submits : TitleSettled(p)
  \/ \E f \in fetches, r \in AllResponses : LoadThreadResolved(f, r)

(***************************************************************************)
(* The send route: POST /api/assistants/threads/[threadId]/messages.       *)
(* Each handler runs STEP 1 (check and cancel active runs), STEP 2 (add    *)
(* the message) and STEP 4 (start the streaming run); every await is a     *)
(* point where other handlers and the backend may take steps.              *)
(***************************************************************************)
\* POST requests the route receives
Handlers == 1..MaxPosts

\* runs.list(threadId, { limit: 5 })
ListLimit == 5

\* run.status === 'in_progress' || 'queued' || 'requires_action'
ActiveStatuses == {"queued", "in_progress", "requires_action"}

\* a run of the thread as the backend holds it
Run(status, cancelRequested) == [status |-> status, cancelRequested |-> cancelRequested]

\* the ids of the runs the list call returns, newest first
ListedRuns ==
  [i \in 1..(IF Len(runs) < ListLimit THEN Len(runs) ELSE ListLimit) |-> Len(runs) + 1 - i]

\* runs.data.find(run => active status): the first active run listed, or NoRun
NoRun == 0
FindActiveRun(listed) ==
  IF \E i \in 1..Len(listed) : runs[listed[i]].status \in ActiveStatuses
  THEN listed[CHOOSE i \in 1..Len(listed) :
                /\ runs[listed[i]].status \in ActiveStatuses
                /\ \A j \in 1..(i - 1) : runs[listed[j]].status \notin ActiveStatuses]
  ELSE NoRun

\* the thread has a run that is not terminal
HasActiveRun == \E i \in 1..Len(runs) : runs[i].status \in ActiveStatuses

Handler(pc, activeRun, response) == [pc |-> pc, activeRun |-> activeRun, response |-> response]

GuardInit ==
  /\ runs = <<>>
  /\ threadMessages = 0
  /\ handlers = [h \in Handlers |-> Handler("idle", NoRun, "none")]

\* a handler moves on; nothing of the thread changes
Goto(h, pc, activeRun, response) ==
  handlers' = [handlers EXCEPT ![h] = Handler(pc, activeRun, response)]

\* the request arrives: body and configuration checks, then STEP 1's list call
Post(h, content) ==
  /\ handlers[h].pc = "idle"
  /\ IF content = ""
     THEN Goto(h, "done", NoRun, "400 content required")
     ELSE Goto(h, "list", NoRun, "none")
  /\ UNCHANGED <<runs, threadMessages>>
  /\ UNCHANGED <<chatVars, streamVars, unitVars>>

\* STEP 1, runs.list resolves: find the first active run; cancel it if there is one
RunsListed(h) ==
  /\ handlers[h].pc = "list"
  /\ IF FindActiveRun(ListedRuns) # NoRun
     THEN Goto(h, "cancel", FindActiveRun(ListedRuns), "none")
     ELSE Goto(h, "create", NoRun, "none")
  /\ UNCHANGED <<runs, threadMessages>>
  /\ UNCHANGED <<chatVars, streamVars, unitVars>>

\* STEP 1, runs.list rejects: catch (checkError) { warn } and continue
RunsListFailed(h) ==
  /\ handlers[h].pc = "list"
  /\ Goto(h, "create", NoRun, "none")
  /\ UNCHANGED <<runs, threadMessages>>
  /\ UNCHANGED <<chatVars, streamVars, unitVars>>

\* STEP 1, runs.cancel resolves: the backend has taken the request for a run
\* that is still active; the handler starts its 1 second wait
RunCancelAccepted(h) ==
  /\ handlers[h].pc = "cancel"
  /\ runs[handlers[h].activeRun].status \in ActiveStatuses
  /\ runs' = [runs EXCEPT ![handlers[h].activeRun].cancelRequested = TRUE]
  /\ Goto(h, "wait", handlers[h].activeRun, "none")
  /\ UNCHANGED threadMessages
  /\ UNCHANGED <<chatVars, streamVars, unitVars>>

\* STEP 1 without the inner try/catch: a rejected runs.cancel ends the request
RunCancelFailedAborts(h) ==
  /\ handlers[h].pc = "cancel"
  /\ Goto(h, "done", handlers[h].activeRun, "error")
  /\ UNCHANGED <<runs, threadMessages>>
  /\ UNCHANGED <<chatVars, streamVars, unitVars>>

\* STEP 1, runs.cancel rejects: catch (cancelError) { warn } and continue, no wait
RunCancelFailed(h) ==
  /\ handlers[h].pc = "cancel"
  /\ Goto(h, "create", handlers[h].activeRun, "none")
  /\ UNCHANGED <<runs, threadMessages>>
  /\ UNCHANGED <<chatVars, streamVars, unitVars>>

\* STEP 1, the setTimeout(resolve, 1000) fires
GraceElapsed(h) ==
  /\ handlers[h].pc = "wait"
  /\ Goto(h, "create", handlers[h].activeRun, "none")
  /\ UNCHANGED <<runs, threadMessages>>
  /\ UNCHANGED <<chatVars, streamVars, unitVars>>

\* STEP 2, messages.create resolves: the thread had no active run
MessageCreated(h) ==
  /\ handlers[h].pc = "create"
  /\ ~HasActiveRun
  /\ threadMessages' = threadMessages + 1
  /\ Goto(h, "stream", handlers[h].activeRun, "none")
  /\ UNCHANGED runs
  /\ UNCHANGED <<chatVars, streamVars, unitVars>>

\* the errors messages.create may reject with, as the handler reads them:
\* createError.status, createError.type and whether createError.message
\* includes 'run'
ErrorStatuses == {400, 401, 404, 500}
ErrorTypes == {"invalid_request_error", "other"}
CreateErrors ==
  [status : ErrorStatuses, type : ErrorTypes, mentionsRun : BOOLEAN]

\* the outer catch of POST for a createError that STEP 2 re-throws: none of its
\* 401, invalid_request_error and 404 branches can match such an error
OuterCatchResponse(e) == "error"

\* STEP 2's catch (createError): the branches in the order of the code
CreateErrorResponse(e) ==
  IF e.status = 401 THEN "401 invalid api key"
  ELSE IF e.type = "invalid_request_error" THEN "400 invalid request"
  ELSE IF e.status = 404 THEN "404 thread not found"
  ELSE IF e.status = 400 /\ e.mentionsRun THEN "400 still processing"
  ELSE OuterCatchResponse(e)

\* STEP 2, messages.create rejects with error e.  The backend raises its
\* "run is active" conflict (status 400, the message naming the run) only
\* while a run is active; any other error may come at any time.
MessageCreateFailed(h, e) ==
  /\ handlers[h].pc = "create"
  /\ e.mentionsRun => (HasActiveRun /\ e.status = 400)
  /\ Goto(h, "done", handlers[h].activeRun, CreateErrorResponse(e))
  /\ UNCHANGED <<runs, threadMessages>>
  /\ UNCHANGED <<chatVars, streamVars, unitVars>>

\* STEP 4, runs.stream: the backend creates the run and the handler returns
\* the event stream
RunStarted(h) ==
  /\ handlers[h].pc = "stream"
  /\ runs' = Append(runs, Run("queued", FALSE))
  /\ Goto(h, "done", handlers[h].activeRun, "stream")
  /\ UNCHANGED threadMessages
  /\ UNCHANGED <<chatVars, streamVars, unitVars>>

\* STEP 4, runs.stream throws: catch (streamError), an error response
RunStartFailed(h) ==
  /\ handlers[h].pc = "stream"
  /\ Goto(h, "done", handlers[h].activeRun, "error")
  /\ UNCHANGED <<runs, threadMessages>>
  /\ UNCHANGED <<chatVars, streamVars, unitVars>>

\* the backend works on a run: queued -> in_progress -> requires_action or
\* a terminal status
RunAdvances(i, status) ==
  /\ i \in 1..Len(runs)
  /\ \/ runs[i].status = "queued" /\ status = "in_progress"
     \/ runs[i].status = "in_progress" /\ status \in {"requires_action", "completed", "failed"}
  /\ runs' = [runs EXCEPT ![i].status = status]
  /\ UNCHANGED <<threadMessages, handlers>>
  /\ UNCHANGED <<chatVars, streamVars, unitVars>>

\* the backend carries out a cancellation it accepted
RunCancelled(i) ==
  /\ i \in 1..Len(runs)
  /\ runs[i].cancelRequested /\ runs[i].status \in ActiveStatuses
  /\ runs' = [runs EXCEPT ![i].status = "cancelled"]
  /\ UNCHANGED <<threadMessages, handlers>>
  /\ UNCHANGED <<chatVars, streamVars, unitVars>>

GuardNext ==
  \/ \E h \in Handlers, content \in {"", "q"} : Post(h, content)
  \/ \E h \in Handlers : RunsListed(h)
  \/ \E h \in Handlers : RunsListFailed(h)
  \/ \E h \in Handlers : RunCancelAccepted(h)
  \/ \E h \in Handlers : RunCancelFailed(h)
  \/ \E h \in Handlers : GraceElapsed(h)
  \/ \E h \in Handlers : MessageCreated(h)
  \/ \E h \in Handlers, e \in CreateErrors : MessageCreateFailed(h, e)
  \/ \E h \in Handlers : RunStarted(h)
  \/ \E h \in Handlers : RunStartFailed(h)
  \/ \E i \in 1..MaxPosts, status \in {"in_progress", "requires_action", "completed", "failed"} :
       RunAdvances(i, status)
  \/ \E i \in 1..MaxPosts : RunCancelled(i)

(***************************************************************************)
(* The streaming variant of the Chat component: sendMessage reads the      *)
(* reply as a stream of events, through handleSSEStream (Python backend)   *)
(* or through an AssistantStream and handleReadableStream.  The machine    *)
(* follows one loaded conversation through its sends, streams, tool calls  *)
(* and fallback timers.                                                    *)
(***************************************************************************)
\* loadThread's mapping of the fetched messages; a text is its list of chunks
ParseMessagesV2(snap) ==
  [i \in 1..Len(snap) |-> Msg(snap[i].th, snap[i].role, snap[i].n, <<snap[i].content>>)]

\* appendMessage("assistant", "\n\n[Error: ...]")
ErrorMsgV2(t, n) == Msg(t, "assistant", n, <<"[Error]">>)

\* a POST awaiting its response; resume tells that handleSSEStream awaits it;
\* closure is the threadId of the render whose handleSubmit made the call, the
\* value every function called from there reads as threadId
Request(kind, turn, thread, isFirst, resume, closure) ==
  [kind |-> kind, turn |-> turn, thread |-> thread, isFirst |-> isFirst, resume |-> resume,
   closure |-> closure]

\* a response stream with its handlers registered, nothing received yet
Stream(turn, origin, kind, thread, closure) ==
  [turn |-> turn, origin |-> origin, kind |-> kind, thread |-> thread, closure |-> closure,
   created |-> FALSE, deltas |-> 0, terminal |-> FALSE, action |-> FALSE,
   blocked |-> FALSE, transport |-> "open"]

\* the stream delivers events to its handlers
Delivering(s) == s \in streams /\ s.transport = "open" /\ ~s.blocked

\* the stream ends after deltas and without completed, failed or cancelled
EndsEarly(s) == s.deltas > 0 /\ ~s.terminal

\* handleSSEStream resumes its read loop once "await submitActionResult" returns
Resume(q) ==
  {IF q.resume /\ s.turn = q.turn /\ s.origin = "send" THEN [s EXCEPT !.blocked = FALSE] ELSE s :
     s \in streams}

\* no send, stream, tool call or timer of the streaming variant is pending
StreamIdle ==
  /\ requests = {}
  /\ streams = {}
  /\ toolCalls = {}
  /\ timers = 0
  /\ turns = 0
  /\ closedEarly = FALSE

\* the streaming variant with a stored conversation selected and loaded
StreamLoaded ==
  /\ \E t \in StoredThreads \ GroupThreads :
       /\ threadId = t
       /\ messages = ParseMessagesV2(OldExchange(t))
       /\ lastMessageCountRef = Len(OldExchange(t))
  /\ inputDisabled = FALSE
  /\ isNewThread = FALSE
  /\ isGroupConversation = FALSE
  /\ loadingThreadRef = NoThread
  /\ pollingIntervalRef = NoThread
  /\ messageData = NoData
  /\ fetches = {}
  /\ sends = {}
  /\ submits = {}
  /\ threads = StoredThreads
  /\ history = [t \in AllThreads |-> IF t \in StoredThreads THEN OldExchange(t) ELSE <<>>]
  /\ sent = 0
  /\ lastNav = "select"
  /\ loadLog = "none"
  /\ GuardInit
  /\ StreamIdle
  /\ isPythonBackend \in BOOLEAN

\* handleSubmit with a conversation selected: sendMessage(userInput), then the
\* optimistic append and setInputDisabled(true)
HandleSubmitV2 ==
  /\ threadId # NoThread
  /\ ~inputDisabled
  /\ turns < MaxTurns
  /\ turns' = turns + 1
  /\ requests' = requests \cup {Request("send", turns + 1, threadId, IsFirstMessage, FALSE, threadId)}
  /\ messages' = Append(messages, Msg(threadId, "user", turns + 1, <<"q">>))
  /\ inputDisabled' = TRUE
  /\ UNCHANGED <<isNewThread, isPythonBackend, streams, toolCalls, timers, closedEarly>>
  /\ UNCHANGED chatRest
  /\ UNCHANGED <<guardVars, unitVars>>
  /\ Effects

\* sendMessage after its await: a non-OK status, no response body, or the fetch
\* rejected: an error message, and input enabled
SendFailedV2(q) ==
  /\ q \in requests /\ q.kind = "send"
  /\ requests' = requests \ {q}
  /\ messages' = Append(messages, ErrorMsgV2(q.thread, q.turn))
  /\ inputDisabled' = FALSE
  /\ UNCHANGED <<isNewThread, isPythonBackend, streams, toolCalls, timers, turns, closedEarly>>
  /\ UNCHANGED chatRest
  /\ UNCHANGED <<guardVars, unitVars>>
  /\ Effects

\* sendMessage after its await, the response has a body: handleSSEStream reads
\* it, or handleReadableStream registers the AssistantStream handlers
SendStreamingV2(q) ==
  /\ q \in requests /\ q.kind = "send"
  /\ requests' = requests \ {q}
  /\ isNewThread' = IF q.isFirst THEN FALSE ELSE isNewThread
  /\ streams' = streams \cup {Stream(q.turn, "send",
                                     IF isPythonBackend THEN "sse" ELSE "assistant",
                                     q.thread, q.closure)}
  /\ UNCHANGED <<messages, inputDisabled, isPythonBackend, toolCalls, timers, turns,
                 closedEarly>>
  /\ UNCHANGED chatRest
  /\ UNCHANGED <<guardVars, unitVars>>
  /\ Effects

\* handleTextCreated, or the "thread.message.created" frame: appendMessage("assistant", "")
TextCreated(s) ==
  /\ Delivering(s) /\ ~s.created /\ ~s.terminal
  /\ streams' = (streams \ {s}) \cup {[s EXCEPT !.created = TRUE]}
  /\ messages' = Append(messages, Msg(s.thread, "assistant", s.turn, <<>>))
  /\ UNCHANGED <<inputDisabled, isNewThread, isPythonBackend, requests, toolCalls, timers,
                 turns, closedEarly>>
  /\ UNCHANGED chatRest
  /\ UNCHANGED <<guardVars, unitVars>>
  /\ Effects

\* handleTextDelta, or the "thread.message.delta" frame: appendToLastMessage(value)
TextDelta(s) ==
  /\ Delivering(s) /\ s.created /\ ~s.terminal
  /\ s.deltas < MaxDeltas
  /\ messages # <<>>
  /\ streams' = (streams \ {s}) \cup {[s EXCEPT !.deltas = @ + 1]}
  /\ messages' = [messages EXCEPT ![Len(messages)].text = @ \o <<"a">>]
  /\ UNCHANGED <<inputDisabled, isNewThread, isPythonBackend, requests, toolCalls, timers,
                 turns, closedEarly>>
  /\ UNCHANGED chatRest
  /\ UNCHANGED <<guardVars, unitVars>>
  /\ Effects

\* the terminal events.  AssistantStream: handleRunCompleted, handleRunFailed,
\* handleRunCancelled.  SSE: the completed and failed branches; a cancelled
\* frame matches no branch of handleSSEStream.
RunTerminal(s, event) ==
  /\ Delivering(s) /\ ~s.terminal
  /\ streams' = (streams \ {s}) \cup {[s EXCEPT !.terminal = TRUE]}
  /\ IF event = "cancelled" /\ s.kind = "sse"
     THEN UNCHANGED <<inputDisabled, messages>>
     ELSE /\ inputDisabled' = FALSE
          /\ messages' = IF event = "failed"
                         THEN Append(messages, ErrorMsgV2(s.thread, s.turn))
                         ELSE messages
  /\ UNCHANGED <<isNewThread, isPythonBackend, requests, toolCalls, timers, turns,
                 closedEarly>>
  /\ UNCHANGED chatRest
  /\ UNCHANGED <<guardVars, unitVars>>
  /\ Effects

\* handleSSEStream, the "[DONE]" sentinel: setInputDisabled(false)
DoneSignal(s) ==
  /\ Delivering(s) /\ s.kind = "sse"
  /\ inputDisabled' = FALSE
  /\ UNCHANGED <<messages, isNewThread, streamVars>>
  /\ UNCHANGED chatRest
  /\ UNCHANGED <<guardVars, unitVars>>
  /\ Effects

\* "thread.run.requires_action": the tool calls go to functionCallHandler;
\* handleSSEStream awaits them inside its read loop.  submitActionResult will
\* post to the threadId of its closure; started is the conversation the run
\* was started on
RequiresAction(s) ==
  /\ Delivering(s) /\ ~s.terminal /\ ~s.action
  /\ s.origin = "send"
  /\ streams' = (streams \ {s}) \cup {[s EXCEPT !.action = TRUE, !.blocked = (s.kind = "sse")]}
  /\ toolCalls' = toolCalls \cup {[turn |-> s.turn, thread |-> s.closure, started |-> s.thread,
                                  resume |-> (s.kind = "sse")]}
  /\ UNCHANGED <<messages, inputDisabled, isNewThread, isPythonBackend, requests, timers,
                 turns, closedEarly>>
  /\ UNCHANGED chatRest
  /\ UNCHANGED <<guardVars, unitVars>>
  /\ Effects

\* the tool calls resolved: setInputDisabled(true); submitActionResult(runId, outputs)
ToolCallsResolved(c) ==
  /\ c \in toolCalls
  /\ toolCalls' = toolCalls \ {c}
  /\ inputDisabled' = TRUE
  /\ requests' = requests \cup {Request("action", c.turn, c.thread, FALSE, c.resume, c.thread)}
  /\ UNCHANGED <<messages, isNewThread, isPythonBackend, streams, timers, turns, closedEarly>>
  /\ UNCHANGED chatRest
  /\ UNCHANGED <<guardVars, unitVars>>
  /\ Effects

\* submitActionResult after its await: a non-OK status, no body, or the fetch rejected
ActionFailed(q) ==
  /\ q \in requests /\ q.kind = "action"
  /\ requests' = requests \ {q}
  /\ streams' = Resume(q)
  /\ messages' = Append(messages, ErrorMsgV2(q.thread, q.turn))
  /\ inputDisabled' = FALSE
  /\ UNCHANGED <<isNewThread, isPythonBackend, toolCalls, timers, turns, closedEarly>>
  /\ UNCHANGED chatRest
  /\ UNCHANGED <<guardVars, unitVars>>
  /\ Effects

\* submitActionResult after its await: handleReadableStream on the continuation
ActionStreaming(q) ==
  /\ q \in requests /\ q.kind = "action"
  /\ requests' = requests \ {q}
  /\ streams' = Resume(q) \cup {Stream(q.turn, "action", "assistant", q.thread, q.closure)}
  /\ UNCHANGED <<messages, inputDisabled, isNewThread, isPythonBackend, toolCalls, timers,
                 turns, closedEarly>>
  /\ UNCHANGED chatRest
  /\ UNCHANGED <<guardVars, unitVars>>
  /\ Effects

\* the transport of a response closes: the body ends, or the connection breaks
TransportClosed(s, how) ==
  /\ s \in streams /\ s.transport = "open"
  /\ streams' = (streams \ {s}) \cup {[s EXCEPT !.transport = how]}
  /\ UNCHANGED <<messages, inputDisabled, isNewThread, isPythonBackend, requests, toolCalls,
                 timers, turns, closedEarly>>
  /\ UNCHANGED chatRest
  /\ UNCHANGED <<guardVars, unitVars>>
  /\ Effects

\* handleSSEStream: reader.read() resolves with done: setInputDisabled(false); break
ReadDone(s) ==
  /\ s \in streams /\ s.kind = "sse" /\ ~s.blocked
  /\ s.transport = "ended"
  /\ streams' = streams \ {s}
  /\ inputDisabled' = FALSE
  /\ closedEarly' = (closedEarly \/ EndsEarly(s))
  /\ UNCHANGED <<messages, isNewThread, isPythonBackend, requests, toolCalls, timers, turns>>
  /\ UNCHANGED chatRest
  /\ UNCHANGED <<guardVars, unitVars>>
  /\ Effects

\* handleSSEStream: reader.read() rejects: the catch appends an error message
ReadFailed(s) ==
  /\ s \in streams /\ s.kind = "sse" /\ ~s.blocked
  /\ s.transport = "aborted"
  /\ streams' = streams \ {s}
  /\ messages' = Append(messages, ErrorMsgV2(s.thread, s.turn))
  /\ inputDisabled' = FALSE
  /\ closedEarly' = (closedEarly \/ EndsEarly(s))
  /\ UNCHANGED <<isNewThread, isPythonBackend, requests, toolCalls, timers, turns>>
  /\ UNCHANGED chatRest
  /\ UNCHANGED <<guardVars, unitVars>>
  /\ Effects

\* the "end" handler without its setTimeout(() => setInputDisabled(false), 100)
StreamEndNoFallback(s, withError) ==
  /\ s \in streams /\ s.kind = "assistant"
  /\ s.transport # "open"
  /\ s.transport = "aborted" => withError
  /\ (s.transport = "ended" /\ s.terminal) => ~withError
  /\ streams' = streams \ {s}
  /\ IF withError
     THEN /\ inputDisabled' = FALSE
          /\ messages' = Append(messages, ErrorMsgV2(s.thread, s.turn))
     ELSE UNCHANGED <<inputDisabled, messages>>
  /\ closedEarly' = (closedEarly \/ EndsEarly(s))
  /\ UNCHANGED <<isNewThread, isPythonBackend, requests, toolCalls, timers, turns>>
  /\ UNCHANGED chatRest
  /\ UNCHANGED <<guardVars, unitVars>>
  /\ Effects

\* handleReadableStream: the AssistantStream ends.  It emits "error" first when
\* the connection broke, and possibly when no final run was received (the error
\* handler enables input and appends an error message); then "end", whose
\* handler starts the 100 ms fallback timer.
StreamEnd(s, withError) ==
  /\ s \in streams /\ s.kind = "assistant"
  /\ s.transport # "open"
  /\ s.transport = "aborted" => withError
  /\ (s.transport = "ended" /\ s.terminal) => ~withError
  /\ streams' = streams \ {s}
  /\ IF withError
     THEN /\ inputDisabled' = FALSE
          /\ messages' = Append(messages, ErrorMsgV2(s.thread, s.turn))
     ELSE UNCHANGED <<inputDisabled, messages>>
  /\ timers' = timers + 1
  /\ closedEarly' = (closedEarly \/ EndsEarly(s))
  /\ UNCHANGED <<isNewThread, isPythonBackend, requests, toolCalls, turns>>
  /\ UNCHANGED chatRest
  /\ UNCHANGED <<guardVars, unitVars>>
  /\ Effects

\* the fallback timer of an "end" handler fires: setInputDisabled(false)
TimerFired ==
  /\ timers > 0
  /\ timers' = timers - 1
  /\ inputDisabled' = FALSE
  /\ UNCHANGED <<messages, isNewThread, isPythonBackend, requests, streams, toolCalls, turns,
                 closedEarly>>
  /\ UNCHANGED chatRest
  /\ UNCHANGED <<guardVars, unitVars>>
  /\ Effects

StreamNext ==
  \/ HandleSubmitV2
  \/ \E q \in requests : SendFailedV2(q)
  \/ \E q \in requests : SendStreamingV2(q)
  \/ \E s \in streams : TextCreated(s)
  \/ \E s \in streams : TextDelta(s)
  \/ \E s \in streams, event \in {"completed", "failed", "cancelled"} : RunTerminal(s, event)
  \/ \E s \in streams : DoneSignal(s)
  \/ \E s \in streams : RequiresAction(s)
  \/ \E c \in toolCalls : ToolCallsResolved(c)
  \/ \E q \in requests : ActionFailed(q)
  \/ \E q \in requests : ActionStreaming(q)
  \/ \E s \in streams, how \in {"ended", "aborted"} : TransportClosed(s, how)
  \/ \E s \in streams : ReadDone(s)
  \/ \E s \in streams : ReadFailed(s)
  \/ \E s \in streams, withError \in BOOLEAN : StreamEnd(s, withError)
  \/ TimerFired

\* every request settles, every transport closes, every handler and timer runs
StreamFairness ==
  /\ WF_vars(\E q \in requests : SendFailedV2(q) \/ SendStreamingV2(q))
  /\ WF_vars(\E c \in toolCalls : ToolCallsResolved(c))
  /\ WF_vars(\E q \in requests : ActionFailed(q) \/ ActionStreaming(q))
  /\ WF_vars(\E s \in streams, how \in {"ended", "aborted"} : TransportClosed(s, how))
  /\ WF_vars(\E s \in streams : ReadDone(s))
  /\ WF_vars(\E s \in streams : ReadFailed(s))
  /\ WF_vars(\E s \in streams, withError \in BOOLEAN : StreamEnd(s, withError))
  /\ WF_vars(TimerFired)

\* handleSubmit of the streaming variant on the welcome screen, step 5: the
\* conversation is created and saved (the steps before are those of
\* HandleSubmitNew, CreateResolved and SubmitFailed: the same text in both
\* variants); setMessages([user message]), setInputDisabled(true) and
\* sendMessage(userInput, newThreadId), called from the render of the submit,
\* in which threadId was empty
SaveResolvedV2(p) ==
  /\ p \in submits /\ p.stage = "save"
  /\ messages' = <<Msg(p.id, "user", p.n, <<"q">>)>>
  /\ inputDisabled' = TRUE
  /\ requests' = requests \cup {Request("send", p.n, p.id, p.isFirst, FALSE, NoThread)}
  /\ submits' = (submits \ {p}) \cup {[p EXCEPT !.stage = "send"]}
  /\ UNCHANGED <<isNewThread, isPythonBackend, streams, toolCalls, timers, turns, closedEarly>>
  /\ UNCHANGED <<threadId, isGroupConversation, lastMessageCountRef, loadingThreadRef,
                 fetches, sends, threads, history, sent, lastNav, loadLog>>
  /\ UNCHANGED <<guardVars, unitVars>>
  /\ Effects

\* "await sendMessage(...)" of submit p has returned: the request was answered
\* and, with the Python backend, handleSSEStream has finished reading
SendReturned(p) ==
  /\ \A q \in requests : ~(q.kind = "send" /\ q.turn = p.n)
  /\ \A s \in streams : ~(s.kind = "sse" /\ s.origin = "send" /\ s.turn = p.n)

\* handleSubmit of the streaming variant, step 6: the title request settles
\* (its failure is only logged), then setIsNewThread(false)
TitleSettledV2(p) ==
  /\ p \in submits /\ p.stage = "send"
  /\ SendReturned(p)
  /\ submits' = submits \ {p}
  /\ isNewThread' = FALSE
  /\ UNCHANGED <<messages, inputDisabled, streamVars>>
  /\ UNCHANGED <<threadId, isGroupConversation, lastMessageCountRef, loadingThreadRef,
                 fetches, sends, threads, history, sent, lastNav, loadLog>>
  /\ UNCHANGED <<guardVars, unitVars>>
  /\ Effects

\* the streaming variant with a user who submits once, on the welcome screen
NewChatNext ==
  \/ HandleSubmitNew
  \/ \E p \in submits : CreateResolved(p)
  \/ \E p \in submits : SubmitFailed(p)
  \/ \E p \in submits : SaveResolvedV2(p)
  \/ \E p \in submits : TitleSettledV2(p)
  \/ \E q \in requests : SendFailedV2(q)
  \/ \E q \in requests : SendStreamingV2(q)
  \/ \E s \in streams : TextCreated(s)
  \/ \E s \in streams : TextDelta(s)
  \/ \E s \in streams, event \in {"completed", "failed", "cancelled"} : RunTerminal(s, event)
  \/ \E s \in streams : DoneSignal(s)
  \/ \E s \in streams : RequiresAction(s)
  \/ \E c \in toolCalls : ToolCallsResolved(c)
  \/ \E q \in requests : ActionFailed(q)
  \/ \E q \in requests : ActionStreaming(q)
  \/ \E s \in streams, how \in {"ended", "aborted"} : TransportClosed(s, how)
  \/ \E s \in streams : ReadDone(s)
  \/ \E s \in streams : ReadFailed(s)
  \/ \E s \in streams, withError \in BOOLEAN : StreamEnd(s, withError)
  \/ TimerFired

(***************************************************************************)
(* handleSSEStream at the level of bytes: the read loop, its buffer, the   *)
(* split into frames and the handling of each frame's payload.  A line of  *)
(* payload characters stands for "data: <payload>".                        *)
(***************************************************************************)
\* length of a response body
MaxBytes == 6

\* "\n"
Newline == "n"
\* payload characters: "d" is a complete JSON delta object carrying a text
\* value, "x" is text that is not JSON
PayloadChars == {"d", "x"}
Bytes == PayloadChars \cup {Newline}

\* the response bodies
Bodies == UNION {[1..k -> Bytes] : k \in 0..MaxBytes}

\* str.split(sep) for a separator of one or two newlines: the pieces between
\* the occurrences of sep, found from the left
RECURSIVE Split(_, _)
Split(str, sep) ==
  LET At(i) == \A j \in 1..sep : str[i + j - 1] = Newline
      hits  == {i \in 1..(Len(str) - sep + 1) : At(i)}
  IN IF hits = {}
     THEN <<str>>
     ELSE LET i == CHOOSE h \in hits : \A g \in hits : h <= g
          IN <<SubSeq(str, 1, i - 1)>> \o Split(SubSeq(str, i + sep, Len(str)), sep)

\* buffer.split('\n\n')
SplitFrames(str) == Split(str, 2)

\* message.split('\n')
SplitLines(message) == Split(message, 1)

\* a read loop that starts every read with an empty buffer
KeepNothing(parts) == <<>>

\* messages.pop() || '': the piece after the last delimiter stays in the buffer
KeepIncomplete(parts) == parts[Len(parts)]

\* the pieces left in messages after the pop: the complete frames
CompleteFrames(parts) == SubSeq(parts, 1, Len(parts) - 1)

\* !message.trim(): nothing but whitespace
IsBlank(message) == \A i \in 1..Len(message) : message[i] = Newline

\* the loop over the lines: data is the payload of the last data line
DataOf(message) ==
  LET lines == SplitLines(message)
      idx   == {i \in 1..Len(lines) : lines[i] # <<>>}
  IN IF idx = {} THEN <<>> ELSE lines[CHOOSE i \in idx : \A j \in idx : j <= i]

\* JSON.parse(data) returns: data is exactly one JSON object
Parses(data) == data = <<"d">>

\* what the handling of frames works on: the transcript, and whether a state
\* updater has thrown
FrameState(msgs, err) == [messages |-> msgs, renderError |-> err]

\* appendToLastMessage(text): the updater reads lastMessage.text of
\* prevMessages[prevMessages.length - 1]; with an empty transcript lastMessage
\* is undefined and the read throws a TypeError while React renders
AppendToLastMessage(st, text) ==
  IF st.messages = <<>>
  THEN [st EXCEPT !.renderError = TRUE]
  ELSE [st EXCEPT !.messages[Len(st.messages)].text = @ \o <<text>>]

\* a parse error that reaches the catch of the read loop instead of the
\* frame's own: an error message is appended
SkipFrameWithError(st) ==
  [st EXCEPT !.messages = Append(@, Msg(NoThread, "assistant", 0, <<"[Error]">>))]

\* catch (parseError) { console.error(...) }: the frame is dropped
SkipFrame(st) == st

\* a frame as the branches of handleSSEStream read it: the event line, and
\* object, role and status of the parsed data
Frame(event, object, role, status) ==
  [event |-> event, object |-> object, role |-> role, status |-> status]

\* the frames of an assistant message and of the end of a run, as the
\* Assistants API streams them
EvtMessageCreated    == Frame("thread.message.created", "thread.message", "assistant", "in_progress")
EvtMessageInProgress == Frame("thread.message.in_progress", "thread.message", "assistant", "in_progress")
EvtMessageDelta      == Frame("thread.message.delta", "thread.message.delta", "none", "none")
EvtMessageCompleted  == Frame("thread.message.completed", "thread.message", "assistant", "completed")
EvtRunCompleted      == Frame("thread.run.completed", "thread.run", "none", "completed")
EvtRunFailed         == Frame("thread.run.failed", "thread.run", "none", "failed")
FrameKinds ==
  {EvtMessageCreated, EvtMessageInProgress, EvtMessageDelta, EvtMessageCompleted, EvtRunCompleted, EvtRunFailed}

\* the branch of the if / else-if chain a parsed frame takes (the
\* requires_action and error branches come after these)
Branch(f) ==
  IF f.event = "thread.message.created" \/ f.object = "thread.message" THEN "created"
  ELSE IF f.event = "thread.message.delta" \/ f.object = "thread.message.delta" THEN "delta"
  ELSE IF f.event = "thread.run.completed" \/ f.status = "completed" THEN "completed"
  ELSE IF f.event = "thread.run.failed" \/ f.status = "failed" THEN "failed"
  ELSE "none"

\* what the branch does to the transcript: appendMessage("assistant", ""),
\* appendToLastMessage(value), appendMessage("assistant", "[Error: ...]")
HandleParsed(st, f) ==
  CASE Branch(f) = "created" ->
         IF f.role = "assistant"
         THEN [st EXCEPT !.messages = Append(@, Msg(threadId, "assistant", 1, <<>>))]
         ELSE st
    [] Branch(f) = "delta" -> AppendToLastMessage(st, "a")
    [] Branch(f) = "failed" -> [st EXCEPT !.messages = Append(@, ErrorMsgV2(threadId, 1))]
    [] OTHER -> st

\* the body of "for (const message of messages)" for one frame; a payload
\* that parses is a delta with a text value
HandleFrame(st, message) ==
  IF st.renderError THEN st
  ELSE IF IsBlank(message) THEN st
  ELSE IF DataOf(message) = <<>> THEN st
  ELSE IF Parses(DataOf(message)) THEN HandleParsed(st, EvtMessageDelta)
  ELSE SkipFrame(st)

\* the for loop over the complete frames of one read
RECURSIVE HandleFrames(_, _)
HandleFrames(st, msgs) ==
  IF msgs = <<>> THEN st
  ELSE HandleFrames(HandleFrame(st, Head(msgs)), Tail(msgs))

\* the frames that pass "if (!message.trim()) continue"
Handled(msgs) == SelectSeq(msgs, LAMBDA m : ~IsBlank(m))

\* buffer += decoder.decode(value): the buffer after a read of k more bytes
Decoded(k) == buffer \o SubSeq(body, readPos + 1, readPos + k)

\* nothing is being read
SseIdle ==
  /\ body = <<>>
  /\ readPos = 0
  /\ buffer = <<>>
  /\ frames = <<>>
  /\ renderError = FALSE
  /\ sseDone = TRUE

\* the transcripts a response may meet: the user's message and the assistant
\* message the created frame opened, or nothing (New Chat was pressed while
\* the response was on its way)
SseTranscripts(t) ==
  {<<>>, <<Msg(t, "user", 1, <<"q">>), Msg(t, "assistant", 1, <<>>)>>}

\* one iteration of the read loop: reader.read() delivers k bytes
ReadChunk(k) ==
  /\ ~sseDone
  /\ k \in 1..(Len(body) - readPos)
  /\ readPos' = readPos + k
  /\ buffer' = KeepIncomplete(SplitFrames(Decoded(k)))
  /\ frames' = frames \o Handled(CompleteFrames(SplitFrames(Decoded(k))))
  /\ LET st == HandleFrames(FrameState(messages, renderError),
                            CompleteFrames(SplitFrames(Decoded(k))))
     IN /\ messages' = st.messages
        /\ renderError' = st.renderError
  /\ UNCHANGED <<body, sseDone, inputDisabled, isNewThread>>
  /\ UNCHANGED chatRest
  /\ UNCHANGED <<guardVars, streamVars, toolVars, citeVars, otherVars>>
  /\ Effects

\* reader.read() answers done: setInputDisabled(false); break
SseReadDone ==
  /\ ~sseDone
  /\ readPos = Len(body)
  /\ sseDone' = TRUE
  /\ inputDisabled' = FALSE
  /\ UNCHANGED <<body, readPos, buffer, frames, renderError, messages, isNewThread>>
  /\ UNCHANGED chatRest
  /\ UNCHANGED <<guardVars, streamVars, toolVars, citeVars, otherVars>>
  /\ Effects

\* reader.read() rejects: the catch of handleSSEStream appends an error
\* message and enables input
SseReadFailed ==
  /\ ~sseDone
  /\ sseDone' = TRUE
  /\ inputDisabled' = FALSE
  /\ messages' = IF renderError THEN messages
                 ELSE Append(messages, ErrorMsgV2(threadId, 1))
  /\ UNCHANGED <<body, readPos, buffer, frames, renderError, isNewThread>>
  /\ UNCHANGED chatRest
  /\ UNCHANGED <<guardVars, streamVars, toolVars, citeVars, otherVars>>
  /\ Effects

SseNext ==
  \/ \E k \in 1..MaxBytes : ReadChunk(k)
  \/ SseReadDone
  \/ SseReadFailed

\* frames of one response
MaxFrames == 4

\* the responses: sequences of frames
FrameLists == UNION {[1..k -> FrameKinds] : k \in 0..MaxFrames}

\* no parsed frame is waiting
FramesIdle == incoming = <<>> /\ handled = <<>>

\* the try block of the for loop for the next frame of the response
HandleNextFrame ==
  /\ incoming # <<>>
  /\ ~renderError
  /\ LET st == HandleParsed(FrameState(messages, renderError), Head(incoming))
     IN /\ messages' = st.messages
        /\ renderError' = st.renderError
  /\ inputDisabled' = IF Branch(Head(incoming)) \in {"completed", "failed"}
                      THEN FALSE ELSE inputDisabled
  /\ incoming' = Tail(incoming)
  /\ handled' = Append(handled, Head(incoming))
  /\ UNCHANGED <<body, readPos, buffer, frames, sseDone, isNewThread, sendLimit>>
  /\ UNCHANGED chatRest
  /\ UNCHANGED <<guardVars, streamVars, toolVars, citeVars, storeVars>>
  /\ Effects

FrameNext == HandleNextFrame

(***************************************************************************)
(* The thread-history route: POST saves a conversation record, DELETE      *)
(* removes one and, for a request not flagged isGroup, the OpenAI thread.  *)
(* Each await of a handler is a step; the steps of the requests being      *)
(* handled interleave.                                                     *)
(***************************************************************************)
\* requests to the route
MaxRequests == 2

\* a record of the conversations collection (userId is the one USER_ID)
Conversation(t, g) == [threadId |-> t, isGroup |-> g]

\* the collection when the component mounts
StoredConversations ==
  <<Conversation(1, FALSE), Conversation(2, TRUE)>>

NoCall == [method |-> "none"]

\* a request being handled: cleanup tells the request of loadThread's 404
\* branch from the others
Call(method, t, g, cleanup, pc) ==
  [method |-> method, threadId |-> t, isGroup |-> g, cleanup |-> cleanup, pc |-> pc]

\* the route is handling nothing and has written nothing
StoreIdle ==
  /\ conversations = StoredConversations
  /\ openaiThreads = AllThreads
  /\ routeCalls = [c \in 1..MaxRequests |-> NoCall]
  /\ deletions = {}

\* the requests not yet made
FreeCalls == {c \in 1..MaxRequests : routeCalls[c] = NoCall}

\* the next request takes the lowest free place
NextCall == CHOOSE c \in FreeCalls : \A d \in FreeCalls : c <= d

\* the positions of the records findOne({userId, threadId}) matches
Matching(t) == {i \in 1..Len(conversations) : conversations[i].threadId = t}

\* the collection without its record at position i
WithoutRecord(i) ==
  [j \in 1..(Len(conversations) - 1) |->
     IF j < i THEN conversations[j] ELSE conversations[j + 1]]

\* the conversation of thread t is stored as a group conversation
StoredAsGroup(t) == \E i \in Matching(t) : conversations[i].isGroup

StoreFrame ==
  /\ UNCHANGED <<chatVars, guardVars, streamVars, sseVars, toolVars, citeVars>>
  /\ UNCHANGED <<sendLimit, frameVars>>

\* POST reads { threadId, name, isGroup = false } from the request: the
\* first-message save sends isGroup false, handleJoinTeam sends isGroup true
POST(t, g) ==
  /\ FreeCalls # {}
  /\ t # NoThread
  /\ routeCalls' = [routeCalls EXCEPT ![NextCall] = Call("POST", t, g, FALSE, "findOne")]
  /\ UNCHANGED <<conversations, openaiThreads, deletions>>
  /\ StoreFrame

\* await conversationsCollection.findOne({ userId, threadId }): a record
\* found ends the request with 'Thread already exists'
PostFindOne(c) ==
  /\ routeCalls[c].method = "POST"
  /\ routeCalls[c].pc = "findOne"
  /\ routeCalls' = [routeCalls EXCEPT ![c].pc =
                      IF Matching(routeCalls[c].threadId) # {} THEN "exists" ELSE "insertOne"]
  /\ UNCHANGED <<conversations, openaiThreads, deletions>>
  /\ StoreFrame

\* await conversationsCollection.insertOne(conversation)
PostInsertOne(c) ==
  /\ routeCalls[c].method = "POST"
  /\ routeCalls[c].pc = "insertOne"
  /\ conversations' =
       Append(conversations, Conversation(routeCalls[c].threadId, routeCalls[c].isGroup))
  /\ routeCalls' = [routeCalls EXCEPT ![c].pc = "saved"]
  /\ UNCHANGED <<openaiThreads, deletions>>
  /\ StoreFrame

\* DELETE reads { threadId, isGroup } from the request; an omitted isGroup
\* is falsy, as false is
DELETE(t, g) ==
  /\ FreeCalls # {}
  /\ t # NoThread
  /\ routeCalls' = [routeCalls EXCEPT ![NextCall] =
                      Call("DELETE", t, g, FALSE, IF g THEN "deleteOne" ELSE "threadsDel")]
  /\ UNCHANGED <<conversations, openaiThreads, deletions>>
  /\ StoreFrame

\* loadThread of a listed conversation whose history the backend answers
\* with 404: the cleanup sends DELETE with isGroup false
LoadThreadNotFound(t) ==
  /\ FreeCalls # {}
  /\ Matching(t) # {}
  /\ t \notin openaiThreads
  /\ routeCalls' = [routeCalls EXCEPT ![NextCall] =
                      Call("DELETE", t, FALSE, TRUE, "threadsDel")]
  /\ UNCHANGED <<conversations, openaiThreads, deletions>>
  /\ StoreFrame

\* await openai.beta.threads.del(threadId) inside its own try: the 404 of a
\* thread the backend does not hold is caught
DeleteThreadsDel(c) ==
  /\ routeCalls[c].method = "DELETE"
  /\ routeCalls[c].pc = "threadsDel"
  /\ LET t == routeCalls[c].threadId
     IN IF t \in openaiThreads
        THEN /\ openaiThreads' = openaiThreads \ {t}
             /\ deletions' = deletions \cup {Conversation(t, StoredAsGroup(t))}
        ELSE UNCHANGED <<openaiThreads, deletions>>
  /\ routeCalls' = [routeCalls EXCEPT ![c].pc = "deleteOne"]
  /\ UNCHANGED conversations
  /\ StoreFrame

\* await db.collection('conversations').deleteOne({ userId, threadId }):
\* the first matching record goes
DeleteDeleteOne(c) ==
  /\ routeCalls[c].method = "DELETE"
  /\ routeCalls[c].pc = "deleteOne"
  /\ LET found == Matching(routeCalls[c].threadId)
     IN conversations' =
          IF found = {} THEN conversations
          ELSE WithoutRecord(CHOOSE i \in found : \A j \in found : i <= j)
  /\ routeCalls' = [routeCalls EXCEPT ![c].pc = "deleted"]
  /\ UNCHANGED <<openaiThreads, deletions>>
  /\ StoreFrame

StoreNext ==
  \/ \E t \in AllThreads, g \in BOOLEAN : POST(t, g)
  \/ \E c \in 1..MaxRequests : PostFindOne(c)
  \/ \E c \in 1..MaxRequests : PostInsertOne(c)
  \/ \E t \in AllThreads, g \in BOOLEAN : DELETE(t, g)
  \/ \E t \in AllThreads : LoadThreadNotFound(t)
  \/ \E c \in 1..MaxRequests : DeleteThreadsDel(c)
  \/ \E c \in 1..MaxRequests : DeleteDeleteOne(c)

(***************************************************************************)
(* Tool calls: handleRequiresAction (and the requires_action branch of     *)
(* handleSSEStream), submitActionResult and the actions route.             *)
(***************************************************************************)
\* requires_action events one session receives
MaxEvents == 2

\* the ids of the tool calls and of the runs that require them
ToolCallIds == {1, 2}
RunIds == {1, 2}

\* what functionCallHandler may resolve with; "" is the default handler's answer
Outputs == {"", "r"}
\* a call whose promise has not resolved
Pending == "pending"

\* submit_tool_outputs.tool_calls of an event: calls with distinct ids
ToolCallLists ==
  {cs \in UNION {[1..k -> ToolCallIds] : k \in 0..Cardinality(ToolCallIds)} :
     \A i, j \in 1..Len(cs) : i # j => cs[i] # cs[j]}

\* outputs that all carry the id of the first call
ToolCallOutputsUntagged(cs, res) ==
  [i \in 1..Len(cs) |-> [output |-> res[i], tool_call_id |-> cs[1]]]

\* toolCalls.map(...): { output: result, tool_call_id: toolCall.id }, in order
ToolCallOutputs(cs, res) ==
  [i \in 1..Len(cs) |-> [output |-> res[i], tool_call_id |-> cs[i]]]

\* no requires_action event has been received
ToolIdle ==
  /\ pendingRun = NoRun
  /\ calls = <<>>
  /\ invoked = [c \in ToolCallIds |-> 0]
  /\ outputs = <<>>
  /\ events = <<>>
  /\ submissions = <<>>
  /\ forwarded = <<>>

\* handleRequiresAction up to its await: toolCalls.map calls functionCallHandler
\* once for each element
HandleRequiresAction(r, cs) ==
  /\ pendingRun = NoRun
  /\ Len(events) < MaxEvents
  /\ pendingRun' = r
  /\ calls' = cs
  /\ invoked' = [c \in ToolCallIds |-> Cardinality({i \in 1..Len(cs) : cs[i] = c})]
  /\ outputs' = [i \in 1..Len(cs) |-> Pending]
  /\ events' = Append(events, [runId |-> r, calls |-> cs])
  /\ UNCHANGED <<submissions, forwarded>>
  /\ UNCHANGED <<chatVars, guardVars, streamVars, sseVars, citeVars, otherVars>>

\* functionCallHandler's promise for call i resolves
CallResolved(i, out) ==
  /\ pendingRun # NoRun
  /\ i \in 1..Len(calls)
  /\ outputs[i] = Pending
  /\ outputs' = [outputs EXCEPT ![i] = out]
  /\ UNCHANGED <<pendingRun, calls, invoked, events, submissions, forwarded>>
  /\ UNCHANGED <<chatVars, guardVars, streamVars, sseVars, citeVars, otherVars>>

\* Promise.all resolves: setInputDisabled(true), then submitActionResult posts
\* { runId, toolCallOutputs } to the actions route
ToolOutputsCollected ==
  /\ pendingRun # NoRun
  /\ \A i \in 1..Len(calls) : outputs[i] # Pending
  /\ submissions' = Append(submissions, [runId |-> pendingRun,
                                         toolCallOutputs |-> ToolCallOutputs(calls, outputs)])
  /\ pendingRun' = NoRun
  /\ inputDisabled' = TRUE
  /\ UNCHANGED <<calls, invoked, outputs, events, forwarded>>
  /\ UNCHANGED <<messages, isNewThread>>
  /\ UNCHANGED chatRest
  /\ UNCHANGED <<guardVars, streamVars, sseVars, citeVars, otherVars>>
  /\ Effects

\* the actions route: submitToolOutputsStream(threadId, runId, { tool_outputs })
ActionsRoutePost ==
  /\ Len(forwarded) < Len(submissions)
  /\ LET body0 == submissions[Len(forwarded) + 1]
     IN forwarded' = Append(forwarded, [runId |-> body0.runId,
                                        tool_outputs |-> body0.toolCallOutputs])
  /\ UNCHANGED <<pendingRun, calls, invoked, outputs, events, submissions>>
  /\ UNCHANGED <<chatVars, guardVars, streamVars, sseVars, citeVars, otherVars>>

ToolNext ==
  \/ \E r \in RunIds, cs \in ToolCallLists : HandleRequiresAction(r, cs)
  \/ \E i \in ToolCallIds, out \in Outputs : CallResolved(i, out)
  \/ ToolOutputsCollected
  \/ ActionsRoutePost

(***************************************************************************)
(* Citations: replaceCitationsWithFilenames of AssistantMessage.  A text   *)
(* is a sequence of characters: "[" is the opening bracket of a marker,    *)
(* "]" its closing bracket, "+" the dagger, "6" a digit.                   *)
(***************************************************************************)
\* pieces a message body is put together from
MaxFragments == 3
\* times the rewrite is applied to one text
MaxApplications == 2

Digits == {"6"}

\* a citation marker as the assistant writes it, and a second one
Marker == <<"[", "6", ":", "6", "+", "s", "]">>
OtherMarker == <<"[", "6", "6", ":", "6", "+", "s", "s", "]">>

\* the pieces: whole markers, plain text, and parts of markers
Fragments ==
  {Marker, OtherMarker, <<"s">>, <<"6">>, <<"[">>, <<"]">>,
   <<"[", "6", ":", "6", "+">>, <<"+", "s", "]">>}

RECURSIVE TextsOf(_)
TextsOf(n) ==
  IF n = 0 THEN {<<>>}
  ELSE TextsOf(n - 1) \cup {t \o f : t \in TextsOf(n - 1), f \in Fragments}

\* the message bodies
Texts == TextsOf(MaxFragments)

\* annotation.file_citation.filename, and the two fallback names
Filename == <<"r">>
UnknownFile == <<"U">>
ReferencedFile == <<"R">>

Annotation(type, text, filename) == [type |-> type, text |-> text, filename |-> filename]

\* the annotation lists a message may carry
AnnotationLists ==
  {<<>>,
   <<Annotation("file_citation", Marker, Filename)>>,
   <<Annotation("file_citation", Marker, <<>>)>>,
   <<Annotation("file_path", Marker, Filename)>>,
   <<Annotation("file_citation", OtherMarker, Filename),
     Annotation("file_citation", Marker, Filename)>>}

\* \d+ from position i: the position of the last digit of the run (i - 1: none)
DigitsEnd(text, i) ==
  CHOOSE j \in (i - 1)..Len(text) :
    /\ \A k \in i..j : text[k] \in Digits
    /\ (j = Len(text) \/ text[j + 1] \notin Digits)

\* the citation regex at position i: the position of the closing bracket of
\* the match that starts at i, or 0 when none starts there
CitationEnd(text, i) ==
  LET d1 == DigitsEnd(text, i + 1)
      d2 == DigitsEnd(text, d1 + 2)
      closing == {c \in (d2 + 2)..Len(text) : text[c] = "]"}
  IN IF /\ i <= Len(text) /\ text[i] = "["
        /\ d1 >= i + 1
        /\ d1 + 1 <= Len(text) /\ text[d1 + 1] = ":"
        /\ d2 >= d1 + 2
        /\ d2 + 1 <= Len(text) /\ text[d2 + 1] = "+"
        /\ closing # {}
        /\ (CHOOSE c \in closing : \A e \in closing : c <= e) >= d2 + 3
     THEN CHOOSE c \in closing : \A e \in closing : c <= e
     ELSE 0

\* citationMap.get(match): the filename of the last file_citation annotation
\* whose text is the match, <<>> when there is none
CitationMapGet(match, anns) ==
  LET idx == {i \in 1..Len(anns) : anns[i].type = "file_citation" /\ anns[i].text = match}
      last == CHOOSE i \in idx : \A j \in idx : j <= i
  IN IF idx = {} THEN <<>>
     ELSE IF anns[last].filename = <<>> THEN UnknownFile ELSE anns[last].filename

\* ` _(Source: ${filename})_ `; "S" stands for the word Source
SourceRef(name) == <<" ", "_", "(", "S", ":", " ">> \o name \o <<")", "_", " ">>

\* a replacement that leaves the marker in front of the reference
ReplacementKeepsMarker(match, anns) ==
  match \o SourceRef(IF CitationMapGet(match, anns) # <<>>
                     THEN CitationMapGet(match, anns) ELSE ReferencedFile)

\* the replace callback: the reference for the match
Replacement(match, anns) ==
  IF CitationMapGet(match, anns) # <<>>
  THEN SourceRef(CitationMapGet(match, anns))
  ELSE SourceRef(ReferencedFile)

\* text.replace(citationRegex, callback) from position i on: matches are taken
\* from the left and do not overlap
RECURSIVE ReplaceFrom(_, _, _)
ReplaceFrom(text, anns, i) ==
  IF i > Len(text) THEN <<>>
  ELSE IF CitationEnd(text, i) > 0
       THEN Replacement(SubSeq(text, i, CitationEnd(text, i)), anns)
              \o ReplaceFrom(text, anns, CitationEnd(text, i) + 1)
       ELSE <<text[i]>> \o ReplaceFrom(text, anns, i + 1)

ReplaceCitationsWithFilenames(text, anns) == ReplaceFrom(text, anns, 1)

\* the matches text.replace finds in text, from position i on
RECURSIVE MatchesFrom(_, _)
MatchesFrom(text, i) ==
  IF i > Len(text) THEN {}
  ELSE IF CitationEnd(text, i) > 0
       THEN {SubSeq(text, i, CitationEnd(text, i))} \cup MatchesFrom(text, CitationEnd(text, i) + 1)
       ELSE MatchesFrom(text, i + 1)

\* part occurs in text
Contains(text, part) ==
  \E i \in 0..(Len(text) - Len(part)) : SubSeq(text, i + 1, i + Len(part)) = part

\* no message is being rendered
CiteIdle ==
  /\ rawText = <<>>
  /\ annotations = <<>>
  /\ shown = <<>>
  /\ applied = MaxApplications

\* the rewrite is applied to the text at hand
RewriteCitations ==
  /\ applied < MaxApplications
  /\ shown' = ReplaceCitationsWithFilenames(shown, annotations)
  /\ applied' = applied + 1
  /\ UNCHANGED <<rawText, annotations>>
  /\ UNCHANGED <<chatVars, guardVars, streamVars, sseVars, toolVars, otherVars>>

\* the message is rendered anew from its text prop
RenderAgain ==
  /\ applied > 0
  /\ shown' = rawText
  /\ applied' = 0
  /\ UNCHANGED <<rawText, annotations>>
  /\ UNCHANGED <<chatVars, guardVars, streamVars, sseVars, toolVars, otherVars>>

CiteNext ==
  \/ RewriteCitations
  \/ RenderAgain

(***************************************************************************)
(* Specifications.                                                         *)
(***************************************************************************)
\* none of the units followed on their own is active
UnitsIdle == SseIdle /\ ToolIdle /\ CiteIdle /\ FramesIdle /\ StoreIdle

\* the user submits up to MaxSends messages
OneSend == sendLimit = MaxSends

Init == ChatInit /\ GuardInit /\ StreamIdle /\ isPythonBackend = TRUE /\ UnitsIdle /\ OneSend

\* the chat session controller
Spec == Init /\ [][Next]_vars

\* the chat session controller in sequential use
SeqSpec == Init /\ [][SeqNext]_vars

\* the chat session controller with a user who submits up to MaxResends times
ResubmitInit ==
  /\ ChatInit /\ GuardInit /\ StreamIdle /\ isPythonBackend = TRUE /\ UnitsIdle
  /\ sendLimit = MaxResends

ResubmitSpec == ResubmitInit /\ [][ResubmitNext]_vars

\* the send route and the runs of one thread
GuardSpec == Init /\ [][GuardNext]_vars

\* the streaming variant, a conversation loaded and nothing else going on
StreamInit == StreamLoaded /\ UnitsIdle /\ OneSend

\* the streaming variant of the chat session controller
StreamSpec == StreamInit /\ [][StreamNext]_vars /\ StreamFairness

\* the streaming variant on the welcome screen
NewChatInit ==
  /\ ChatInit /\ GuardInit /\ StreamIdle /\ isPythonBackend \in BOOLEAN
  /\ UnitsIdle /\ OneSend

\* the streaming variant, from the welcome screen through the first message
NewChatSpec == NewChatInit /\ [][NewChatNext]_vars

\* a conversation of the streaming variant whose send is awaiting its response
Sending ==
  /\ \E t \in StoredThreads \ GroupThreads :
       /\ threadId = t
       /\ pollingIntervalRef = t
       /\ messages \in SseTranscripts(t)
  /\ lastMessageCountRef = 0
  /\ inputDisabled = TRUE
  /\ isNewThread = FALSE
  /\ isGroupConversation = FALSE
  /\ loadingThreadRef = NoThread
  /\ messageData = NoData
  /\ fetches = {}
  /\ sends = {}
  /\ submits = {}
  /\ threads = StoredThreads
  /\ history = [t \in AllThreads |-> IF t \in StoredThreads THEN OldExchange(t) ELSE <<>>]
  /\ sent = 0
  /\ lastNav = "select"
  /\ loadLog = "none"
  /\ GuardInit
  /\ StreamIdle
  /\ isPythonBackend = TRUE
  /\ OneSend

\* handleSSEStream starts to read a response body
SseInit ==
  /\ Sending
  /\ body \in Bodies
  /\ readPos = 0
  /\ buffer = <<>>
  /\ frames = <<>>
  /\ renderError = FALSE
  /\ sseDone = FALSE
  /\ ToolIdle /\ CiteIdle /\ FramesIdle /\ StoreIdle

\* handleSSEStream reading one response body
SseSpec == SseInit /\ [][SseNext]_vars

\* handleSSEStream has handled the frame that opened the assistant's message;
\* the frames after it are to come
FrameInit ==
  /\ Sending /\ messages # <<>>
  /\ SseIdle /\ ToolIdle /\ CiteIdle /\ StoreIdle
  /\ incoming \in FrameLists
  /\ handled = <<>>

\* the session is idle; the listed conversations are stored, and the backend
\* holds any of the threads (a thread may have been deleted elsewhere, a
\* teammate's thread may or may not exist)
StoreInit ==
  /\ ChatInit /\ GuardInit /\ StreamIdle /\ isPythonBackend = FALSE
  /\ SseIdle /\ ToolIdle /\ CiteIdle /\ FramesIdle /\ OneSend
  /\ conversations = StoredConversations
  /\ openaiThreads \in SUBSET AllThreads
  /\ routeCalls = [c \in 1..MaxRequests |-> NoCall]
  /\ deletions = {}

\* requests to the thread-history route
StoreSpec == StoreInit /\ [][StoreNext]_vars

\* handleSSEStream handling the parsed frames of one response
FrameSpec == FrameInit /\ [][FrameNext]_vars

\* the response of a send is being received; no requires_action event yet
ToolInit == Sending /\ SseIdle /\ ToolIdle /\ CiteIdle /\ FramesIdle /\ StoreIdle

\* the handling of requires_action events
ToolSpec == ToolInit /\ [][ToolNext]_vars

\* an assistant message is about to be rendered
CiteInit ==
  /\ ChatInit /\ GuardInit /\ StreamIdle /\ isPythonBackend = TRUE
  /\ SseIdle /\ ToolIdle /\ FramesIdle /\ StoreIdle /\ OneSend
  /\ rawText \in Texts
  /\ annotations \in AnnotationLists
  /\ shown = rawText
  /\ applied = 0

\* the rendering of one assistant message
CiteSpec == CiteInit /\ [][CiteNext]_vars

(***************************************************************************)
(* Claims about the chat session controller (checked under Spec).          *)
(***************************************************************************)
\* a loadThread call of the given kind resumes with an OK response
LoadOkStep(f, r, kind) == LoadThreadResolved(f, r) /\ f.kind = kind /\ r.status = "ok"

\* C1: when conversation B was selected after the history fetch for another
\* conversation A was dispatched, A's fetch resolving successfully changes
\* neither the transcript, the watermark nor the new-thread flag, and B's own
\* fetch resolving makes the transcript equal to B's fetched messages.
C1_StaleSelectionDiscarded ==
  [][\A f \in fetches, r \in AllResponses :
       (LoadOkStep(f, r, "initial") /\ lastNav = "select") =>
         IF threadId # f.target
         THEN UNCHANGED <<messages, lastMessageCountRef, isNewThread>>
         ELSE messages' = ParseMessages(r.snap) /\ \A i \in 1..Len(messages') :
                                                     messages'[i].th = threadId]_vars

\* C1 witness: conversation 2 is selected and shows exactly its stored messages,
\* and the latest loadThread to complete was the discarded fetch of another one.
C1_Witness ==
  /\ lastNav = "select" /\ threadId = 2 /\ loadingThreadRef = 2
  /\ loadLog = "stale"
  /\ messages = ParseMessages(history[2]) /\ messages # <<>>
  /\ fetches = {}

\* C2: a send started in conversation A that settles (reply or error) while
\* another conversation, or the welcome screen, is shown adds nothing to the
\* transcript.
C2_NoCrossThreadReply ==
  [][\A s \in sends :
       ((SendResolved(s) \/ SendFailed(s)) /\ s.thread # threadId) =>
         messages' = messages]_vars

\* C4: applying a reconciliation snapshot (a poll of loadThread or new useSWR
\* data) for the shown conversation never shortens the transcript, and a
\* snapshot with no more messages than the watermark leaves it unchanged.
C4_SnapshotNeverShrinks ==
  [][\A f \in fetches, r \in AllResponses :
       ((LoadOkStep(f, r, "poll") \/ (SwrResolved(f, r) /\ r.status = "ok"))
          /\ f.target = threadId) =>
         /\ Len(messages') >= Len(messages)
         /\ Len(r.snap) <= lastMessageCountRef => messages' = messages]_vars

\* C5: the transcript never holds the same assistant reply twice.
C5_NoDuplicateReply ==
  \A i, j \in 1..Len(messages) :
    (i < j /\ messages[i].role = "assistant" /\ messages[i].text = "a") =>
      messages[i] # messages[j]

\* C6: a poll of loadThread dispatched for conversation A that resolves while
\* another conversation B is selected changes neither the transcript, the
\* watermark nor the new-thread flag.
C6_StalePollDiscarded ==
  [][\A f \in fetches, r \in AllResponses :
       (LoadThreadResolved(f, r) /\ f.kind = "poll" /\ r.status = "ok"
          /\ lastNav = "select" /\ threadId # f.target) =>
         UNCHANGED <<messages, lastMessageCountRef, isNewThread>>]_vars

\* C7: on the welcome screen (no conversation selected, transcript empty,
\* polling off) the transcript stays empty on every step except the append of
\* the user's own message by a submit.
C7_WelcomeStaysEmpty ==
  [][(threadId = NoThread /\ messages = <<>> /\ ~(\E p \in submits : SaveResolved(p))) =>
       (messages' = <<>> /\ pollingIntervalRef = NoThread)]_vars

\* C9: every failure on the send path (conversation creation or metadata save
\* failing, the send request failing) ends with an assistant-role error message
\* at the end of the transcript and with input enabled.
C9_FailureSurfaced ==
  [][((\E p \in submits : SubmitFailed(p)) \/ (\E s \in sends : SendFailed(s))) =>
       /\ Len(messages') = Len(messages) + 1
       /\ messages'[Len(messages')].role = "assistant"
       /\ messages'[Len(messages')].text = "[Error]"
       /\ ~inputDisabled']_vars

\* C10: a poll of loadThread that fails (non-OK status or rejected fetch)
\* changes no session state: transcript, watermark, new-thread flag,
\* input-enabled flag and polling stay as they are.
C10_PollFailureOnlyLogged ==
  [][\A f \in fetches, r \in AllResponses :
       (LoadThreadResolved(f, r) /\ f.kind = "poll" /\ r.status \in {"notok", "neterr"}) =>
         UNCHANGED <<messages, lastMessageCountRef, isNewThread, inputDisabled,
                     pollingIntervalRef>>]_vars

\* C14: whenever a send request goes out, the user's message of that turn is
\* already in the transcript, and every reply or error message a send appends
\* belongs to a request that went out after that append.
C14_UserMessageFirst ==
  [][/\ \A s \in sends' \ sends :
          s.stage = "sent" =>
            /\ s.appended \in 1..Len(messages')
            /\ messages'[s.appended] = UserMsg(s.thread, s.n)
     /\ \A s \in sends :
          (SendResolved(s) \/ SendFailed(s)) => s.appended > 0]_vars

\* C14 witness: a conversation created by the first submit shows the user's
\* message and, after it, the reply of the same turn.
C14_Witness ==
  /\ threadId \in FreshThreads /\ sends = {}
  /\ \E i, j \in 1..Len(messages) :
       /\ i < j
       /\ messages[i] = UserMsg(threadId, 1)
       /\ messages[j] = ReplyMsg(threadId, 1)

\* C11: an initial load that the backend answers with a not-found status
\* removes the conversation from the thread list, clears the transcript and
\* leaves no conversation selected.
C11_NotFoundLeavesWelcome ==
  [][\A f \in fetches, r \in AllResponses :
       (LoadThreadResolved(f, r) /\ f.kind = "initial" /\ r.status = "notok"
          /\ ~IsStale(f)) =>
         /\ messages' = <<>>
         /\ threadId' = NoThread
         /\ f.target \notin threads']_vars

\* C22: in every state of the session the watermark equals the length of the
\* transcript.
C22_WatermarkIsLength == lastMessageCountRef = Len(messages)

\* C25: when the history request of a selection rejects (or its body cannot
\* be read) after another conversation has been selected, the transcript, the
\* watermark and the new-thread flag stay as they are.
C25_StaleFailureDiscarded ==
  [][\A f \in fetches :
       (LoadThreadResolved(f, [status |-> "neterr", snap |-> <<>>]) /\ IsStale(f)) =>
         UNCHANGED <<messages, lastMessageCountRef, isNewThread>>]_vars

(***************************************************************************)
(* Claims about sequential use of the session (checked under SeqSpec).     *)
(***************************************************************************)
\* C19: in sequential use every message shown belongs to the conversation
\* selected, and a load that resolves after a switch makes the transcript
\* exactly the stored messages of the conversation switched to.
C19_NoInterference ==
  [][/\ \A i \in 1..Len(messages') : messages'[i].th = threadId'
     /\ \A f \in fetches, r \in AllResponses :
          LoadOkStep(f, r, "initial") =>
            (f.target = threadId /\ messages' = ParseMessages(history[threadId]))]_vars

\* C19 witness: the conversation created by this session's submit, its
\* exchange completed, has been switched back to and shows exactly its own
\* user message and reply.
C19_Witness ==
  /\ Quiescent /\ lastNav = "select" /\ threadId \in FreshThreads
  /\ messages = <<UserMsg(threadId, 1), ReplyMsg(threadId, 1)>>
  /\ messages = ParseMessages(history[threadId])

(***************************************************************************)
(* Claims about a user who submits again (checked under ResubmitSpec).     *)
(***************************************************************************)
\* C23: no conversation has two sendMessage calls awaiting their reply.
C23_OneSendInFlight ==
  \A s1, s2 \in sends : s1.thread = s2.thread => s1 = s2

\* C28: at most one submit is creating a conversation at a time, and while a
\* submit is saving the metadata of the conversation it created, no message
\* has been sent to that conversation.
C28_OneSendPerFirstMessage ==
  /\ Cardinality({p \in submits : p.stage = "create"}) <= 1
  /\ \A p \in submits : p.stage = "save" => \A s \in sends : s.thread # p.id

(***************************************************************************)
(* Claims about the send route (checked under GuardSpec).                  *)
(***************************************************************************)
\* C3: whenever no handler is inside its active-run check, cancellation or
\* grace period, the thread has at most one run that is queued, in_progress or
\* requires_action.
C3_AtMostOneActiveRun ==
  (\A h \in Handlers : handlers[h].pc \notin {"list", "cancel", "wait"}) =>
    Cardinality({i \in 1..Len(runs) : runs[i].status \in ActiveStatuses}) <= 1

\* C12: when runs.list or runs.cancel rejects, the handler answers nothing and
\* goes on to STEP 2, the append of the user message, from where a successful
\* append leads to STEP 4, the start of the run.
C12_GuardFailureNeverAborts ==
  [][\A h \in Handlers :
       /\ (RunsListFailed(h) \/ RunCancelFailed(h)) =>
            (handlers'[h].pc = "create" /\ handlers'[h].response = "none")
       /\ MessageCreated(h) => handlers'[h].pc = "stream"]_vars

\* C12 witness: a handler whose runs.cancel was rejected (the run it found was
\* never asked to cancel) has appended its message and started its run.
C12_Witness ==
  \E h \in Handlers :
    /\ handlers[h].pc = "done" /\ handlers[h].response = "stream"
    /\ handlers[h].activeRun # NoRun
    /\ ~runs[handlers[h].activeRun].cancelRequested

\* C13: whenever messages.create is rejected with a status-400 error whose
\* message mentions the run, the handler answers "AI is still processing.
\* Please wait a moment and try again."
C13_ConflictIsRetryable ==
  [][\A h \in Handlers, e \in CreateErrors :
       (MessageCreateFailed(h, e) /\ e.status = 400 /\ e.mentionsRun) =>
         handlers'[h].response = "400 still processing"]_vars

\* C30: the thread holds a message only for the requests that are answered
\* with the stream of their run or are about to start it; a request answered
\* with an error has added no message.
C30_ErrorLeavesThreadUnchanged ==
  threadMessages =
    Cardinality({h \in Handlers : handlers[h].pc = "stream" \/ handlers[h].response = "stream"})

(***************************************************************************)
(* Claims about the streaming variant (checked under StreamSpec).          *)
(***************************************************************************)
\* a response whose transport has closed after deltas and before any terminal
\* event, its end not yet handled
ClosedWithoutTerminal ==
  \E s \in streams : s.transport # "open" /\ EndsEarly(s)

\* C8: whenever the transport of a response stream has closed after deltas and
\* without a completed, failed or cancelled event, input is eventually enabled
\* again, with the conversation still selected.
C8_InputReenabledAfterClose ==
  ClosedWithoutTerminal ~> (~inputDisabled /\ threadId # NoThread)

\* C8 witness: an AssistantStream ended early without an error event, its
\* fallback timer has fired, and the session is idle with input enabled.
C8_Witness ==
  /\ closedEarly /\ ~isPythonBackend
  /\ ~inputDisabled /\ threadId # NoThread
  /\ requests = {} /\ streams = {} /\ toolCalls = {} /\ timers = 0
  /\ \A i \in 1..Len(messages) : messages[i].text # <<"[Error]">>

\* the stream that continues a run after its tool outputs were submitted is
\* open and has delivered no terminal event
SubStreamInProgress ==
  \E s \in streams : s.origin = "action" /\ s.transport = "open" /\ ~s.terminal

\* C24: while the continuation of a run is in progress and input is disabled,
\* the end of the first stream (its read loop reaching done, or the fallback
\* timer of its "end" handler) leaves input disabled.
C24_InputDisabledDuringToolRun ==
  [][(/\ SubStreamInProgress
      /\ inputDisabled
      /\ \/ TimerFired
         \/ \E s \in streams : s.origin = "send" /\ s.action /\ ReadDone(s)) =>
       inputDisabled']_vars

(***************************************************************************)
(* Claims about the first message of a new conversation in the streaming   *)
(* variant (checked under NewChatSpec).                                    *)
(***************************************************************************)
\* C26: when the tool calls of a requires_action event have resolved, the
\* outputs are posted to the conversation the run was started on.
C26_OutputsToRunsConversation ==
  [][\A c \in toolCalls :
       ToolCallsResolved(c) =>
         \E q \in requests' : q.kind = "action" /\ q.turn = c.turn /\ q.thread = c.started]_vars

(***************************************************************************)
(* Claims about handleSSEStream (checked under SseSpec).                   *)
(***************************************************************************)
\* the bytes read so far
Received == SubSeq(body, 1, readPos)

\* C15: however the body is cut into reads, the frames processed so far are
\* the frames of the bytes received whose closing blank line has arrived, in
\* order, and the buffer holds the bytes after the last such frame.
C15_ChunkingInvariant ==
  LET parts == SplitFrames(Received)
  IN /\ frames = Handled(SubSeq(parts, 1, Len(parts) - 1))
     /\ buffer = parts[Len(parts)]

\* C15 witness: a read ended between the two newlines that close a frame; an
\* earlier frame has been processed and the open one waits in the buffer.
C15_Witness ==
  /\ ~sseDone /\ readPos < Len(body)
  /\ frames # <<>>
  /\ Len(buffer) >= 2
  /\ buffer[Len(buffer)] = Newline /\ buffer[Len(buffer) - 1] # Newline
  /\ body[readPos + 1] = Newline

\* C16: a read changes the transcript only by the deltas of its frames that
\* parse; a frame that does not parse adds no message, and the frames after
\* it in the same read are processed.
C16_BadFrameSkipped ==
  [][\A k \in 1..MaxBytes :
       (ReadChunk(k) /\ ~renderError /\ messages # <<>>) =>
         LET done == Handled(CompleteFrames(SplitFrames(Decoded(k))))
             good == {i \in 1..Len(done) : Parses(DataOf(done[i]))}
         IN /\ frames' = frames \o done
            /\ Len(messages') = Len(messages)
            /\ Len(messages'[Len(messages')].text)
                 = Len(messages[Len(messages)].text) + Cardinality(good)]_vars

\* C16 witness: the body held a frame that does not parse and a delta after
\* it; the stream has ended, the delta is in the assistant's message and the
\* transcript has no error message.
C16_Witness ==
  /\ sseDone /\ ~renderError
  /\ frames = << <<"x">>, <<"d">> >>
  /\ Len(messages) = 2
  /\ messages[2].text = <<"a">>

\* C20: a text delta that arrives while the transcript is empty leaves it
\* empty and raises no error.
C20_DeltaOnEmptyIsNoOp ==
  [][\A k \in 1..MaxBytes :
       (ReadChunk(k) /\ messages = <<>> /\ ~renderError) =>
         (messages' = <<>> /\ ~renderError')]_vars

(***************************************************************************)
(* Claims about the frames of a response (checked under FrameSpec).        *)
(***************************************************************************)
\* C27: the assistant messages of the transcript are the one the response
\* had opened and one more for every thread.message.created frame handled
\* since; no other frame appends a placeholder.
C27_OnePlaceholderPerMessage ==
  Cardinality({i \in 1..Len(messages) :
                 messages[i].role = "assistant" /\ messages[i] # ErrorMsgV2(threadId, 1)})
    = 1 + Cardinality({i \in 1..Len(handled) : handled[i] = EvtMessageCreated})

(***************************************************************************)
(* Claims about the thread-history route (checked under StoreSpec).        *)
(***************************************************************************)
\* C21: the DELETE route removes no thread of a conversation stored as a
\* group conversation from the OpenAI backend.
C21_GroupThreadNeverDeleted ==
  \A d \in deletions : ~d.isGroup

\* C29: the conversations collection holds at most one record per thread id.
C29_OneRecordPerThread ==
  \A t \in AllThreads : Cardinality(Matching(t)) <= 1

=============================================================================
